---- MODULE Spec2Model ----
(***************************************************************************)
(* Model of the CarConnectivity HomeKit bridge: the accessory identity     *)
(* store (aid assignment, per-accessory configuration items, the backing   *)
(* JSON document) and the reconciliation pass CarConnectivityBridge.update *)
(* that installs capability accessories into the bridge's registry.        *)
(***************************************************************************)
EXTENDS Integers, Sequences, FiniteSets, TLC

VARIABLES
    accessory_config,        \* CarConnectivityBridge.__accessory_config: identifier -> entry
    next_aid,                \* CarConnectivityBridge.next_aid
    accessories,             \* pyhap Bridge.accessories: aid -> installed accessory
    config_file,             \* content of accessory_config_file (NoFile when absent)
    ignore_vins,             \* CarConnectivityBridge.ignore_vins
    ignore_accessory_types,  \* CarConnectivityBridge.ignore_accessory_types
    constructed,             \* TRUE when CarConnectivityBridge.__init__ returned normally
    last_op,                 \* the last call made on the bridge and what it did
    vehicle,                 \* the vehicle of the garage as the Vehicle Model holds it now
    accessory_obj,           \* the fields of one capability accessory object
    timers,                  \* the threading.Timer objects started and neither fired nor cancelled
    now,                     \* the clock, in seconds
    stop_event,              \* AccessoryDriver.stop_event.is_set()
    threads                  \* the calls in progress on concurrent threads, each with its position

vars == <<accessory_config, next_aid, accessories, config_file, ignore_vins,
          ignore_accessory_types, constructed, last_op,
          vehicle, accessory_obj, timers, now, stop_event, threads>>

-----------------------------------------------------------------------------
(* Bounds of the model *)

\* Calls that advance next_aid are explored while next_aid is below this value.
MaxNextAid == 104

\* A vehicle snapshot handed to update() has at most this many capabilities enabled.
MaxEnabled == 1

-----------------------------------------------------------------------------
(* Values *)

\* Python's None for an Optional[int] aid.
NoAid == -1

\* Python's None for vehicle.vin.value.
NoVin == "None"

\* json.dump of the store, a dict of dicts: the text of the document,
\* represented by the identifiers it lists and by the item it gives for
\* every (identifier, config_key) it lists.
json_dump(cfg) ==
    [keys  |-> DOMAIN cfg,
     items |-> [p \in UNION { { <<identifier, config_key>> :
                                  config_key \in DOMAIN cfg[identifier] } :
                              identifier \in DOMAIN cfg }
                  |-> cfg[p[1]][p[2]]]]

\* json.load of a document: the dict of dicts it describes.
json_load(text) ==
    [identifier \in text.keys |->
        [config_key \in {p[2] : p \in {q \in DOMAIN text.items : q[1] = identifier}}
           |-> text.items[<<identifier, config_key>>]]]

\* The accessory config file does not exist.
NoFile == [exists |-> FALSE, content |-> [keys |-> {}, items |-> <<>>]]

\* The accessory config file holds the JSON text of the dict doc.
File(doc) == [exists |-> TRUE, content |-> json_dump(doc)]

DefaultNextAid == 100

VINs == {"WVW123", "TMB456"}

\* VINs of vehicles that are instances of ElectricVehicle.
ElectricVINs == {"WVW123"}

\* The id_str values update() passes, in the order of its six blocks.
IdStrs == <<"Climatization", "Charging", "ChargingPlug", "OutsideTemperature",
            "FlashingLight", "Locking">>

IdStrSet == {IdStrs[i] : i \in 1..Len(IdStrs)}

\* f'{vin}-{id_str}'
Identifier(vin, id_str) == vin \o "-" \o id_str

\* The concrete class constructed by the block of update() for id_str.
AccessoryClass(id_str) ==
    CASE id_str = "Climatization"      -> "ClimatizationAccessory"
      [] id_str = "Charging"           -> "ChargingAccessory"
      [] id_str = "ChargingPlug"       -> "ChargingPlugAccessory"
      [] id_str = "OutsideTemperature" -> "OutsideTemperatureAccessory"
      [] id_str = "FlashingLight"      -> "FlashingLightAccessory"
      [] id_str = "Locking"            -> "LockingAccessory"

\* The class attribute `category` of each accessory class.
Category(class) ==
    CASE class = "ClimatizationAccessory"      -> "CATEGORY_AIR_CONDITIONER"
      [] class = "ChargingAccessory"           -> "CATEGORY_OUTLET"
      [] class = "ChargingPlugAccessory"       -> "CATEGORY_SENSOR"
      [] class = "OutsideTemperatureAccessory" -> "CATEGORY_SENSOR"
      [] class = "FlashingLightAccessory"      -> "CATEGORY_LIGHTBULB"
      [] class = "LockingAccessory"            -> "CATEGORY_DOOR_LOCK"
      [] class = "DummyAccessory"              -> "CATEGORY_OTHER"

\* The service preloaded by each accessory constructor.
MainService(class) ==
    CASE class = "ClimatizationAccessory"      -> "Thermostat"
      [] class = "ChargingAccessory"           -> "Outlet"
      [] class = "ChargingPlugAccessory"       -> "ContactSensor"
      [] class = "OutsideTemperatureAccessory" -> "TemperatureSensor"
      [] class = "FlashingLightAccessory"      -> "Lightbulb"
      [] class = "LockingAccessory"            -> "LockMechanism"

-----------------------------------------------------------------------------
(* Vehicle Model snapshots: what update() reads of the vehicle it is given *)

\* A snapshot with the given VIN and set of enabled capabilities. The flags
\* climatization_state, charging_state and connection_state say whether the
\* state attribute below an enabled capability is itself enabled.
Vehicle(vin, enabled, vin_enabled, caps, clim_state, chg_state, conn_state) ==
    [vin                 |-> vin,
     enabled             |-> enabled,
     vin_enabled         |-> vin_enabled,
     electric            |-> vin \in ElectricVINs,
     level               |-> vin \in ElectricVINs,
     climatization       |-> "climatization" \in caps,
     climatization_state |-> "climatization" \in caps /\ clim_state,
     charging            |-> "charging" \in caps,
     charging_state      |-> "charging" \in caps /\ chg_state,
     connection_state    |-> "charging" \in caps /\ conn_state,
     outside_temperature |-> "outside_temperature" \in caps,
     honk_flash          |-> "honk-flash" \in caps,
     lock_unlock         |-> "lock-unlock" \in caps]

\* The capabilities the vehicle with this VIN can report as enabled: the
\* electric vehicle all five, the combustion vehicle climatization and locking.
VehicleCapabilities(vin) ==
    IF vin \in ElectricVINs
    THEN {"climatization", "charging", "outside_temperature", "honk-flash", "lock-unlock"}
    ELSE {"climatization", "lock-unlock"}

\* Vehicles that pass the first test of update().
EligibleVehicles ==
    UNION { { Vehicle(vin, TRUE, TRUE, caps, cs, gs, ns) :
                caps \in SUBSET VehicleCapabilities(vin),
                cs \in BOOLEAN, gs \in BOOLEAN, ns \in BOOLEAN } : vin \in VINs }

\* Vehicles update() skips: disabled vehicle, disabled VIN, VIN without value.
SkippedVehicles ==
    { Vehicle("WVW123", FALSE, TRUE, {"climatization"}, TRUE, TRUE, TRUE),
      Vehicle("WVW123", TRUE, FALSE, {"climatization"}, TRUE, TRUE, TRUE),
      Vehicle(NoVin, TRUE, TRUE, {"climatization"}, TRUE, TRUE, TRUE) }

EnabledCount(v) ==
    Cardinality({c \in {"climatization", "charging", "outside_temperature", "honk_flash", "lock_unlock"} :
                   v[c]})

Vehicles ==
    { v \in EligibleVehicles : EnabledCount(v) <= MaxEnabled } \cup SkippedVehicles

\* Placeholder in last_op for calls that take no vehicle.
NoVehicle == Vehicle(NoVin, FALSE, FALSE, {}, FALSE, FALSE, FALSE)

-----------------------------------------------------------------------------
(* Identity store: bridge.py, get_existing_aid .. get_config_item *)

\* The dict {config_key: item}.
Entry(config_key, item) == config_key :> item

\* entry[config_key] = item on an existing dict.
WithItem(entry, config_key, item) == (config_key :> item) @@ entry

\* The identifiers of the store whose entry has an 'aid' item.
AidKeys(cfg) == {identifier \in DOMAIN cfg : "aid" \in DOMAIN cfg[identifier]}

get_existing_aid(cfg, id_str, vin) ==
    LET identifier == Identifier(vin, id_str)
    IN  IF /\ identifier \in DOMAIN cfg
           /\ "aid" \in DOMAIN cfg[identifier]
           /\ cfg[identifier]["aid"] # NoAid
        THEN cfg[identifier]["aid"]
        ELSE NoAid

\* select_aid that assigns next_aid to the key whether or not it has an aid.
select_aid_always_assigns(b, id_str, vin) ==
    LET identifier == Identifier(vin, id_str)
        new_aid    == b.next_aid
    IN  [cfg      |-> IF identifier \in DOMAIN b.cfg
                      THEN [b.cfg EXCEPT ![identifier] = WithItem(@, "aid", new_aid)]
                      ELSE (identifier :> Entry("aid", new_aid)) @@ b.cfg,
         next_aid |-> b.next_aid + 1,
         aid      |-> new_aid]

\* select_aid that assigns next_aid to a new key and leaves next_aid as it is.
select_aid_no_increment(b, id_str, vin) ==
    LET aid        == get_existing_aid(b.cfg, id_str, vin)
        identifier == Identifier(vin, id_str)
        new_aid    == b.next_aid
    IN  IF aid = NoAid
        THEN [cfg      |-> IF identifier \in DOMAIN b.cfg
                           THEN [b.cfg EXCEPT ![identifier] = WithItem(@, "aid", new_aid)]
                           ELSE (identifier :> Entry("aid", new_aid)) @@ b.cfg,
              next_aid |-> b.next_aid,
              aid      |-> new_aid]
        ELSE [cfg |-> b.cfg, next_aid |-> b.next_aid, aid |-> aid]

\* select_aid that returns next_aid for a new key without recording it in the
\* store.
select_aid_not_recorded(b, id_str, vin) ==
    LET aid     == get_existing_aid(b.cfg, id_str, vin)
        new_aid == b.next_aid
    IN  IF aid = NoAid
        THEN [cfg |-> b.cfg, next_aid |-> b.next_aid + 1, aid |-> new_aid]
        ELSE [cfg |-> b.cfg, next_aid |-> b.next_aid, aid |-> aid]

\* select_aid on the store b = [cfg, next_aid]: the store after the call and
\* the aid returned.
select_aid(b, id_str, vin) ==
    LET aid        == get_existing_aid(b.cfg, id_str, vin)
        identifier == Identifier(vin, id_str)
        new_aid    == b.next_aid
    IN  IF aid = NoAid
        THEN [cfg      |-> IF identifier \in DOMAIN b.cfg
                           THEN [b.cfg EXCEPT ![identifier] = WithItem(@, "aid", new_aid)]
                           ELSE (identifier :> Entry("aid", new_aid)) @@ b.cfg,
              next_aid |-> b.next_aid + 1,
              aid      |-> new_aid]
        ELSE [cfg |-> b.cfg, next_aid |-> b.next_aid, aid |-> aid]

\* set_config_item on the store b = [cfg, next_aid]: the store after the call.
set_config_item(b, id_str, vin, config_key, item) ==
    LET identifier == Identifier(vin, id_str)
    IN  [cfg      |-> IF identifier \in DOMAIN b.cfg
                      THEN [b.cfg EXCEPT ![identifier] = WithItem(@, config_key, item)]
                      ELSE (identifier :> Entry(config_key, item)) @@ b.cfg,
         next_aid |-> b.next_aid + 1]

\* Python's None for a characteristic that was not configured.
NoCharacteristic == -1

\* Python's None for a configuration item.
NoItem == "None"

\* The test of get_config_item: the key has an entry holding config_key.
has_config_item(cfg, id_str, vin, config_key) ==
    LET identifier == Identifier(vin, id_str)
    IN  identifier \in DOMAIN cfg /\ config_key \in DOMAIN cfg[identifier]

get_config_item(cfg, id_str, vin, config_key) ==
    LET identifier == Identifier(vin, id_str)
    IN  IF has_config_item(cfg, id_str, vin, config_key)
        THEN cfg[identifier][config_key]
        ELSE NoItem

-----------------------------------------------------------------------------
(* Accessories: the constructors update() and __init__ call *)

\* [service.display_name for service in accessory.services] of a capability
\* accessory: the info service of pyhap's Accessory, the preloaded service,
\* and the BatteryService add_soc_characteristic adds for an electric vehicle
\* whose drive level is enabled.
Services(class, v) ==
    <<"AccessoryInformation", MainService(class)>>
    \o IF class \in {"ClimatizationAccessory", "ChargingAccessory"} /\ v.electric /\ v.level
       THEN <<"BatteryService">>
       ELSE <<>>

\* A DummyAccessory that keeps the category of its class whatever the entry
\* stores.
DummyAccessory_class_category(identifier, entry) ==
    [class        |-> "DummyAccessory",
     aid          |-> entry["aid"],
     id_str       |-> "",
     vin          |-> "",
     display_name |-> IF "ConfiguredName" \in DOMAIN entry THEN entry["ConfiguredName"]
                      ELSE identifier,
     category   |-> Category("DummyAccessory"),
     services   |-> <<"AccessoryInformation">>
                    \o IF "services" \in DOMAIN entry THEN entry["services"] ELSE <<>>,
     available  |-> FALSE,
     char_configured_name |-> NoItem,
     char_name            |-> NoItem,
     char_temperature_display_units |-> NoCharacteristic]

\* DummyAccessory built by __init__ for the store entry `identifier`.
DummyAccessory(identifier, entry) ==
    [class        |-> "DummyAccessory",
     aid          |-> entry["aid"],
     id_str       |-> "",
     vin          |-> "",
     display_name |-> IF "ConfiguredName" \in DOMAIN entry THEN entry["ConfiguredName"]
                      ELSE identifier,
     category   |-> IF "category" \in DOMAIN entry THEN entry["category"]
                    ELSE Category("DummyAccessory"),
     services   |-> <<"AccessoryInformation">>
                    \o IF "services" \in DOMAIN entry THEN entry["services"] ELSE <<>>,
     available  |-> FALSE,
     char_configured_name |-> NoItem,
     char_name            |-> NoItem,
     char_temperature_display_units |-> NoCharacteristic]

\* The display_name update() gives the accessory: f'{name} Climatization' etc.,
\* where name is the VIN for a vehicle whose name attribute is not enabled
\* (the snapshots of this model).
DisplayName(v, id_str) ==
    v.vin \o " " \o
    CASE id_str = "Climatization"      -> "Climatization"
      [] id_str = "Charging"           -> "Charging"
      [] id_str = "ChargingPlug"       -> "Charging Plug"
      [] id_str = "OutsideTemperature" -> "Outside Temperature"
      [] id_str = "FlashingLight"      -> "Flashing"
      [] id_str = "Locking"            -> "Locking"

\* The capability accessory update() constructs for (vin, id_str) at aid.
CapabilityAccessory(id_str, v, aid) ==
    [class        |-> AccessoryClass(id_str),
     aid          |-> aid,
     id_str       |-> id_str,
     vin          |-> v.vin,
     display_name |-> DisplayName(v, id_str),
     category   |-> Category(AccessoryClass(id_str)),
     services   |-> Services(AccessoryClass(id_str), v),
     available  |-> TRUE,
     char_configured_name |-> DisplayName(v, id_str),
     char_name            |-> DisplayName(v, id_str),
     char_temperature_display_units |->
         IF id_str \in {"Climatization", "OutsideTemperature"} THEN 0 ELSE NoCharacteristic]

\* The characteristics the constructor configures from the store cfg:
\* add_name_characteristics gives ConfiguredName and Name the stored
\* ConfiguredName, or the display name when none is stored; the climate and
\* outside temperature accessories give TemperatureDisplayUnits the stored
\* unit, or Celsius when none is stored.
ConfiguredFromStore(cfg, acc) ==
    LET name == IF has_config_item(cfg, acc.id_str, acc.vin, "ConfiguredName")
                THEN get_config_item(cfg, acc.id_str, acc.vin, "ConfiguredName")
                ELSE acc.display_name
        unit == IF acc.char_temperature_display_units = NoCharacteristic
                THEN NoCharacteristic
                ELSE IF has_config_item(cfg, acc.id_str, acc.vin, "TemperatureDisplayUnits")
                     THEN get_config_item(cfg, acc.id_str, acc.vin, "TemperatureDisplayUnits")
                     ELSE 0
    IN  [acc EXCEPT !.char_configured_name = name, !.char_name = name,
                    !.char_temperature_display_units = unit]

\* The values of TemperatureDisplayUnits that VALUE_TO_TEMPERATURE_UNIT maps.
TemperatureUnitValues == {0, 1}

\* TRUE when the constructor of the accessory for id_str raises on vehicle v:
\*  - ClimatizationAccessory and ChargingAccessory hand the enum member UNKNOWN
\*    to their state callback when the state attribute is not enabled; the
\*    callback reads element.value (a str for an enum member), takes its
\*    default arm and evaluates element.value.value: AttributeError.
\*    ChargingAccessory does the same for the connector's connection state.
\*  - VALUE_TO_TEMPERATURE_UNIT[stored unit] is a KeyError for a stored value
\*    other than 0 and 1.
ConstructorRaises(cfg, id_str, v) ==
    LET bad_unit ==
            /\ has_config_item(cfg, id_str, v.vin, "TemperatureDisplayUnits")
            /\ get_config_item(cfg, id_str, v.vin, "TemperatureDisplayUnits")
                   \notin TemperatureUnitValues
    IN  CASE id_str = "Climatization"      -> bad_unit \/ ~v.climatization_state
          [] id_str = "Charging"           -> ~v.charging_state \/ ~v.connection_state
          [] id_str = "OutsideTemperature" -> bad_unit
          [] OTHER                         -> FALSE

-----------------------------------------------------------------------------
(* Reconciliation: CarConnectivityBridge.update *)

\* The test update() makes on the vehicle before the block of id_str.
CapabilityEnabled(v, id_str) ==
    CASE id_str = "Climatization"      -> v.climatization
      [] id_str = "Charging"           -> v.electric /\ v.charging
      [] id_str = "ChargingPlug"       -> v.electric /\ v.charging
      [] id_str = "OutsideTemperature" -> v.outside_temperature
      [] id_str = "FlashingLight"      -> v.honk_flash
      [] id_str = "Locking"            -> v.lock_unlock

\* The block condition without the test of ignore_accessory_types.
NeedsInstall_ignores_no_type(s, v, id_str, ignored_types) ==
    LET aid == get_existing_aid(s.cfg, id_str, v.vin)
    IN  /\ CapabilityEnabled(v, id_str)
        /\ \/ aid = NoAid
           \/ aid \notin DOMAIN s.accessories
           \/ s.accessories[aid].class # AccessoryClass(id_str)

\* The block condition without the test of the installed accessory's class.
NeedsInstall_without_class_test(s, v, id_str, ignored_types) ==
    /\ id_str \notin ignored_types
    /\ CapabilityEnabled(v, id_str)

\* The condition of the block of id_str: not ignored, capability enabled, and
\* no accessory of the right class installed at the key's aid.
NeedsInstall(s, v, id_str, ignored_types) ==
    LET aid == get_existing_aid(s.cfg, id_str, v.vin)
    IN  /\ id_str \notin ignored_types
        /\ CapabilityEnabled(v, id_str)
        /\ \/ aid = NoAid
           \/ aid \notin DOMAIN s.accessories
           \/ s.accessories[aid].class # AccessoryClass(id_str)

\* A block that replaces the registry by the accessory it installs.
UpdateBlock_replaces_registry(s, v, id_str, ignored_types) ==
    IF s.raised \/ ~NeedsInstall(s, v, id_str, ignored_types)
    THEN s
    ELSE
      LET sel == select_aid([cfg |-> s.cfg, next_aid |-> s.next_aid], id_str, v.vin)
          installed_accessory == ConfiguredFromStore(sel.cfg, CapabilityAccessory(id_str, v, sel.aid))
      IN  [s EXCEPT !.cfg = sel.cfg,
                    !.next_aid = sel.next_aid + 2,
                    !.accessories = sel.aid :> installed_accessory,
                    !.installed = s.installed \cup {id_str},
                    !.config_changed = TRUE]

\* A block that constructs the accessory at the next free aid instead of the
\* aid select_aid returned.
UpdateBlock_next_free_aid(s, v, id_str, ignored_types) ==
    IF s.raised \/ ~NeedsInstall(s, v, id_str, ignored_types)
    THEN s
    ELSE
      LET sel == select_aid([cfg |-> s.cfg, next_aid |-> s.next_aid], id_str, v.vin)
          installed_accessory == ConfiguredFromStore(sel.cfg,
                                     CapabilityAccessory(id_str, v, sel.next_aid))
      IN  [s EXCEPT !.cfg = sel.cfg,
                    !.next_aid = sel.next_aid + 2,
                    !.accessories = (sel.next_aid :> installed_accessory) @@ s.accessories,
                    !.installed = s.installed \cup {id_str},
                    !.config_changed = TRUE]

\* One of the six blocks of update(), run on the pass state s. A block is not
\* reached when an earlier block raised.
UpdateBlock(s, v, id_str, ignored_types) ==
    IF s.raised \/ ~NeedsInstall(s, v, id_str, ignored_types)
    THEN s
    ELSE
      LET sel == select_aid([cfg |-> s.cfg, next_aid |-> s.next_aid], id_str, v.vin)
      IN  IF ConstructorRaises(sel.cfg, id_str, v)
          THEN [s EXCEPT !.cfg = sel.cfg, !.next_aid = sel.next_aid, !.raised = TRUE]
          ELSE
            LET accessory == ConfiguredFromStore(sel.cfg, CapabilityAccessory(id_str, v, sel.aid))
                b1 == set_config_item([cfg |-> sel.cfg, next_aid |-> sel.next_aid],
                                      id_str, v.vin, "category", accessory.category)
                b2 == set_config_item(b1, id_str, v.vin, "services", accessory.services)
            IN  [s EXCEPT !.cfg = b2.cfg,
                          !.next_aid = b2.next_aid,
                          !.accessories = (accessory.aid :> accessory) @@ s.accessories,
                          !.installed = s.installed \cup {id_str},
                          !.config_changed = TRUE]

\* The blocks of update() from the i-th on, in the order of the source, each
\* run on the pass state the block before it left.
RECURSIVE UpdateBlocks(_, _, _, _)
UpdateBlocks(s, v, i, ignored_types) ==
    IF i > Len(IdStrs)
    THEN s
    ELSE CHOOSE r \in { UpdateBlocks(t, v, i + 1, ignored_types) :
                          t \in {UpdateBlock(s, v, IdStrs[i], ignored_types)} } : TRUE

\* The first test of update() without the test of ignore_vins.
PassesVehicleTest_ignores_no_vin(v, ignored_vins) ==
    v.enabled /\ v.vin_enabled /\ v.vin # NoVin

\* The first test of update(): the vehicle and its VIN are enabled, the VIN
\* has a value and is not in ignore_vins.
PassesVehicleTest(v, ignored_vins) ==
    v.enabled /\ v.vin_enabled /\ v.vin # NoVin /\ v.vin \notin ignored_vins

\* update(vehicle) on the bridge b = [cfg, next_aid, accessories]: the bridge
\* after the pass, the id_strs installed, whether driver.config_changed() was
\* called and whether the pass ended with an exception.
update(b, v, ignored_vins, ignored_types) ==
    LET s0 == [cfg |-> b.cfg, next_aid |-> b.next_aid, accessories |-> b.accessories,
               installed |-> {}, config_changed |-> FALSE, raised |-> FALSE]
    IN  IF PassesVehicleTest(v, ignored_vins)
        THEN CHOOSE r \in { [cfg |-> s6.cfg, next_aid |-> s6.next_aid,
                             accessories |-> s6.accessories,
                             installed |-> s6.installed, raised |-> s6.raised,
                             notified |-> s6.config_changed /\ ~s6.raised] :
                            s6 \in {UpdateBlocks(s0, v, 1, ignored_types)} } : TRUE
        ELSE [cfg |-> b.cfg, next_aid |-> b.next_aid, accessories |-> b.accessories,
              installed |-> {}, raised |-> FALSE, notified |-> FALSE]

-----------------------------------------------------------------------------
(* Construction: CarConnectivityBridge.__init__ and read_config *)

\* The empty dict.
EmptyConfig == [identifier \in {} |-> <<>>]

Max(S) == CHOOSE x \in S : \A y \in S : y <= x

\* read_config that loads the document and leaves next_aid at the default.
read_config_keeps_default(doc) ==
    LET aids == {doc[k]["aid"] : k \in {i \in DOMAIN doc : "aid" \in DOMAIN doc[i]}}
    IN  [ok |-> NoAid \notin aids, cfg |-> doc, next_aid |-> DefaultNextAid]

\* read_config that raises next_aid to aid rather than to aid + 1.
read_config_max_aid(doc) ==
    LET aids == {doc[k]["aid"] : k \in {i \in DOMAIN doc : "aid" \in DOMAIN doc[i]}}
    IN  IF NoAid \in aids
        THEN [ok |-> FALSE, cfg |-> doc, next_aid |-> DefaultNextAid]
        ELSE [ok |-> TRUE, cfg |-> doc,
              next_aid |-> Max({DefaultNextAid} \cup aids)]

\* read_config on a document: next_aid is raised to aid + 1 for every entry
\* whose aid + 1 exceeds it, starting from the default. `aid + 1` is a
\* TypeError for an entry whose aid is null.
read_config(doc) ==
    LET aids == {doc[k]["aid"] : k \in {i \in DOMAIN doc : "aid" \in DOMAIN doc[i]}}
    IN  IF NoAid \in aids
        THEN [ok |-> FALSE, cfg |-> doc, next_aid |-> DefaultNextAid]
        ELSE [ok |-> TRUE, cfg |-> doc,
              next_aid |-> Max({DefaultNextAid} \cup {a + 1 : a \in aids})]

\* The placeholder loop of __init__: accessory['aid'] is a KeyError for an
\* entry without aid, and pyhap's add_accessory raises ValueError for an aid
\* that is already in the registry.
Placeholders(cfg) ==
    LET ok == /\ \A k \in DOMAIN cfg : "aid" \in DOMAIN cfg[k]
              /\ \A k1, k2 \in DOMAIN cfg : k1 # k2 => cfg[k1]["aid"] # cfg[k2]["aid"]
    IN  IF ok
        THEN [ok |-> TRUE,
              accessories |-> [aid \in {cfg[k]["aid"] : k \in DOMAIN cfg} |->
                                 LET k == CHOOSE i \in DOMAIN cfg : cfg[i]["aid"] = aid
                                 IN  DummyAccessory(k, cfg[k])]]
        ELSE [ok |-> FALSE, accessories |-> EmptyConfig]

\* CarConnectivityBridge.__init__ on the content of the config file.
Construct(file) ==
    LET rd == IF file = NoFile
              THEN [ok |-> TRUE, cfg |-> EmptyConfig, next_aid |-> DefaultNextAid]
              ELSE read_config(json_load(file.content))
        ph == IF rd.ok THEN Placeholders(rd.cfg)
              ELSE [ok |-> FALSE, accessories |-> EmptyConfig]
    IN  [ok |-> rd.ok /\ ph.ok, cfg |-> rd.cfg, next_aid |-> rd.next_aid,
         accessories |-> ph.accessories]

\* Documents found in the config file at startup.
StoredClimatization ==
    [aid |-> 100, category |-> "CATEGORY_AIR_CONDITIONER",
     services |-> <<"AccessoryInformation", "Thermostat", "BatteryService">>]

StoredLocking ==
    [aid |-> 101, category |-> "CATEGORY_DOOR_LOCK",
     services |-> <<"AccessoryInformation", "LockMechanism">>,
     ConfiguredName |-> "Doors"]

Documents ==
    { EmptyConfig,
      "WVW123-Climatization" :> [aid |-> 100],
      ("WVW123-Climatization" :> StoredClimatization) @@ ("TMB456-Locking" :> StoredLocking),
      "WVW123-Charging" :> [aid |-> 5],
      \* documents __init__ fails on
      "WVW123-Climatization" :> [ConfiguredName |-> "Car"],
      "WVW123-Climatization" :> [aid |-> NoAid],
      ("WVW123-Climatization" :> [aid |-> 100]) @@ ("WVW123-Charging" :> [aid |-> 100]) }

Files == {NoFile} \cup {File(doc) : doc \in Documents}

\* The configurations (ignore_vins, ignore_accessory_types) explored.
IgnoreConfigs ==
    { [vins |-> {}, types |-> {}],
      [vins |-> {"TMB456"}, types |-> {"Charging"}] }

\* No set_status_fault call was made.
NoFaultCall == [made |-> FALSE, value |-> 0, timeout |-> 0, timeout_value |-> 0,
                cancelled |-> FALSE]

\* A timer handle that is None.
NoTimer == [kind |-> "None", deadline |-> 0, arg |-> 0]

\* The accessory object while no accessory is looked at. command_enabled is
\* the test `command is not None and command.enabled` on the command object
\* the accessory holds (honk_flash_command, charging_start_stop_command,
\* window_heating_start_stop_command, climatization_start_stop_command);
\* target_temperature_enabled is the same test on target_temperature_attribute.
\* reported_on is history: the value the last delivery of the charging or
\* window heating state wrote to On.
NoAccessory ==
    [class                            |-> "None",
     char_status_fault                |-> 0,
     char_status_fault_timer          |-> NoTimer,
     char_lock_current_state          |-> 0,
     char_lock_target_state           |-> 0,
     lock_unlock_command_enabled      |-> FALSE,
     estimated_date_reached           |-> 0,
     char_remaining_duration          |-> 0,
     update_remaining_duration_timer  |-> NoTimer,
     char_on                          |-> 0,
     command_enabled                  |-> FALSE,
     reported_on                      |-> 0,
     char_current_heating_cooling_state |-> 0,
     char_target_heating_cooling_state  |-> 0,
     target_temperature_enabled       |-> FALSE,
     current_target_temperature       |-> 0,
     char_outlet_in_use               |-> 0,
     char_contact_sensor_state        |-> 0,
     char_battery_level               |-> 0,
     char_status_low_battery          |-> 0,
     char_charging_state              |-> 0,
     char_current_temperature         |-> 0,
     char_temperature_display_units   |-> 0]

\* last_op after construction. op names the call; vehicle is the argument of
\* update and repeat says that the call before it was update on the same
\* vehicle; identifier and aid are the key and the result of a store call,
\* assigned says that select_aid assigned a new aid; installed, notified and
\* raised are the id_strs an update pass installed, whether it called
\* driver.config_changed() and whether the call ended with an exception.
\* For a call on the accessory object, value is the value written or
\* delivered, result what the handler did with it, and fault_call the
\* set_status_fault call made in the step.
NoOp == [op |-> "init", vehicle |-> NoVehicle, repeat |-> FALSE,
         identifier |-> "", aid |-> NoAid, assigned |-> FALSE,
         installed |-> {}, notified |-> FALSE, raised |-> FALSE,
         value |-> 0, result |-> "", fault_call |-> NoFaultCall]

\* The bridge after CarConnectivityBridge.__init__.
BridgeInit ==
    \E file \in Files, ignore \in IgnoreConfigs :
        LET c == Construct(file)
        IN  /\ config_file = file
            /\ ignore_vins = ignore.vins
            /\ ignore_accessory_types = ignore.types
            /\ constructed = c.ok
            /\ accessory_config = c.cfg
            /\ next_aid = c.next_aid
            /\ accessories = c.accessories
            /\ last_op = NoOp

Init ==
    /\ BridgeInit
    /\ vehicle = NoVehicle
    /\ accessory_obj = NoAccessory
    /\ timers = <<>>
    /\ now = 0
    /\ stop_event = FALSE
    /\ threads = <<>>

-----------------------------------------------------------------------------
(* Actions *)

\* A reconciliation pass update(vehicle), called by Plugin.__delayed_update
\* for every vehicle of the garage and by __on_garage_update.
UpdatePass(v) ==
    /\ constructed
    /\ LET r == update([cfg |-> accessory_config, next_aid |-> next_aid,
                        accessories |-> accessories],
                       v, ignore_vins, ignore_accessory_types)
       IN  /\ accessory_config' = r.cfg
           /\ next_aid' = r.next_aid
           /\ accessories' = r.accessories
           /\ last_op' = [NoOp EXCEPT !.op = "update", !.vehicle = v,
                                      !.repeat = (last_op.op = "update" /\ last_op.vehicle = v),
                                      !.installed = r.installed,
                                      !.notified = r.notified,
                                      !.raised = r.raised]
    /\ UNCHANGED <<config_file, ignore_vins, ignore_accessory_types, constructed,
                   vehicle, accessory_obj, timers, now, stop_event, threads>>

\* The pass as explored from any vehicle snapshot: while next_aid is below
\* its bound.
Update(v) ==
    /\ next_aid < MaxNextAid
    /\ UpdatePass(v)

\* persist_config: open(..., 'w') and json.dump. io = "ok": the document is
\* written; io = "OSError": open() fails, which persist_config does not catch.
IOResults == {"ok", "OSError"}

\* persist_config that opens the file for writing and dumps nothing.
persist_config_truncates(cfg, file, io) ==
    IF io = "ok" THEN File([identifier \in {} |-> <<>>]) ELSE file

persist_config(cfg, file, io) ==
    IF io = "ok" THEN File(cfg) ELSE file

\* The accessories that have the name and display-unit setter callbacks.
LiveAids == {aid \in DOMAIN accessories : accessories[aid].class # "DummyAccessory"}

\* Names an inbound ConfiguredName write carries; "" stands for an empty or
\* absent value.
NameValues == {"", "Garage"}

\* GenericAccessory.__on_configured_name_changed(value) on the accessory at aid.
ConfiguredNameChanged(aid, value, io) ==
    /\ constructed
    /\ next_aid < MaxNextAid
    /\ aid \in LiveAids
    /\ LET acc == accessories[aid]
           b   == set_config_item([cfg |-> accessory_config, next_aid |-> next_aid],
                                  acc.id_str, acc.vin, "ConfiguredName", value)
       IN  IF value # ""
           THEN /\ accessory_config' = b.cfg
                /\ next_aid' = b.next_aid
                /\ config_file' = persist_config(b.cfg, config_file, io)
                /\ accessories' = IF io = "ok"
                                  THEN [accessories EXCEPT ![aid].char_configured_name = value,
                                                           ![aid].char_name = value]
                                  ELSE accessories
                /\ last_op' = [NoOp EXCEPT !.op = "configured_name_changed",
                                           !.identifier = Identifier(acc.vin, acc.id_str),
                                           !.aid = aid,
                                           !.result = IF io = "ok" THEN "persisted" ELSE io,
                                           !.raised = (io # "ok")]
           ELSE /\ UNCHANGED <<accessory_config, next_aid, config_file, accessories>>
                /\ last_op' = [NoOp EXCEPT !.op = "configured_name_changed",
                                           !.identifier = Identifier(acc.vin, acc.id_str),
                                           !.aid = aid, !.result = "empty"]
    /\ UNCHANGED <<ignore_vins, ignore_accessory_types, constructed,
                   vehicle, accessory_obj, timers, now, stop_event, threads>>

\* Values an inbound TemperatureDisplayUnits write carries.
UnitValues == {0, 1, 2}

\* __on_hk_temperature_display_units_change(value) of the climatization or
\* outside temperature accessory at aid.
TemperatureDisplayUnitsChange(aid, value) ==
    /\ constructed
    /\ next_aid < MaxNextAid
    /\ aid \in LiveAids
    /\ accessories[aid].class \in {"ClimatizationAccessory", "OutsideTemperatureAccessory"}
    /\ LET acc == accessories[aid]
           b   == set_config_item([cfg |-> accessory_config, next_aid |-> next_aid],
                                  acc.id_str, acc.vin, "TemperatureDisplayUnits", value)
       IN  /\ IF value \in TemperatureUnitValues
              THEN /\ accessory_config' = b.cfg
                   /\ next_aid' = b.next_aid
                   /\ accessories' = [accessories EXCEPT
                                        ![aid].char_temperature_display_units = value]
              ELSE UNCHANGED <<accessory_config, next_aid, accessories>>
           /\ last_op' = [NoOp EXCEPT !.op = "temperature_display_units_change",
                                      !.identifier = Identifier(acc.vin, acc.id_str),
                                      !.aid = aid, !.value = value]
    /\ UNCHANGED <<config_file, ignore_vins, ignore_accessory_types, constructed,
                   vehicle, accessory_obj, timers, now, stop_event, threads>>

Next ==
    \/ \E v \in Vehicles : Update(v)
    \/ \E aid \in DOMAIN accessories, value \in NameValues, io \in IOResults :
          ConfiguredNameChanged(aid, value, io)
    \/ \E aid \in DOMAIN accessories, value \in UnitValues :
          TemperatureDisplayUnitsChange(aid, value)

Spec == Init /\ [][Next]_vars

\* The process ends and a new one constructs the bridge from the file the
\* old one left.
Restart ==
    /\ constructed
    /\ LET c == Construct(config_file)
       IN  /\ constructed' = c.ok
           /\ accessory_config' = c.cfg
           /\ next_aid' = c.next_aid
           /\ accessories' = c.accessories
    /\ last_op' = [NoOp EXCEPT !.op = "restart"]
    /\ UNCHANGED <<config_file, ignore_vins, ignore_accessory_types,
                   vehicle, accessory_obj, timers, now, stop_event, threads>>

RestartNext ==
    \/ Next
    \/ Restart

RestartSpec == Init /\ [][RestartNext]_vars

-----------------------------------------------------------------------------
(* The identity store called directly, on any key and in any order *)

\* Keys of the direct store calls: a key update() also uses, and a key of
\* the window heating accessory, which update() never installs.
StoreIdStrs == {"Climatization", "WindowHeating"}

\* (config_key, item) pairs of the direct set_config_item calls.
ConfigItems ==
    { [config_key |-> "category", item |-> "CATEGORY_SWITCH"],
      [config_key |-> "ConfiguredName", item |-> "Garage"] }

\* VINs of the direct store calls.
StoreVINs == {"WVW123"}

ConfigKeys == {ci.config_key : ci \in ConfigItems}

SelectAid(id_str, vin) ==
    /\ constructed
    /\ next_aid < MaxNextAid
    /\ LET r == select_aid([cfg |-> accessory_config, next_aid |-> next_aid], id_str, vin)
       IN  /\ accessory_config' = r.cfg
           /\ next_aid' = r.next_aid
           /\ last_op' = [NoOp EXCEPT !.op = "select_aid",
                                      !.identifier = Identifier(vin, id_str),
                                      !.aid = r.aid,
                                      !.assigned = (r.next_aid # next_aid)]
    /\ UNCHANGED <<accessories, config_file, ignore_vins, ignore_accessory_types, constructed,
                   vehicle, accessory_obj, timers, now, stop_event, threads>>

GetExistingAid(id_str, vin) ==
    /\ constructed
    /\ last_op' = [NoOp EXCEPT !.op = "get_existing_aid",
                               !.identifier = Identifier(vin, id_str),
                               !.aid = get_existing_aid(accessory_config, id_str, vin)]
    /\ UNCHANGED <<accessory_config, next_aid, accessories, config_file, ignore_vins,
                   ignore_accessory_types, constructed,
                   vehicle, accessory_obj, timers, now, stop_event, threads>>

SetConfigItem(id_str, vin, config_key, item) ==
    /\ constructed
    /\ next_aid < MaxNextAid
    /\ LET r == set_config_item([cfg |-> accessory_config, next_aid |-> next_aid],
                                id_str, vin, config_key, item)
       IN  /\ accessory_config' = r.cfg
           /\ next_aid' = r.next_aid
           /\ last_op' = [NoOp EXCEPT !.op = "set_config_item",
                                      !.identifier = Identifier(vin, id_str)]
    /\ UNCHANGED <<accessories, config_file, ignore_vins, ignore_accessory_types, constructed,
                   vehicle, accessory_obj, timers, now, stop_event, threads>>

GetConfigItem(id_str, vin, config_key) ==
    /\ constructed
    /\ last_op' = [NoOp EXCEPT !.op = "get_config_item",
                               !.identifier = Identifier(vin, id_str),
                               !.assigned = has_config_item(accessory_config, id_str, vin, config_key)]
    /\ UNCHANGED <<accessory_config, next_aid, accessories, config_file, ignore_vins,
                   ignore_accessory_types, constructed,
                   vehicle, accessory_obj, timers, now, stop_event, threads>>

StoreCall ==
    \E id_str \in StoreIdStrs, vin \in StoreVINs :
        \/ SelectAid(id_str, vin)
        \/ GetExistingAid(id_str, vin)
        \/ \E ci \in ConfigItems : SetConfigItem(id_str, vin, ci.config_key, ci.item)
        \/ \E config_key \in ConfigKeys : GetConfigItem(id_str, vin, config_key)

\* Snapshots the reconciliation passes interleaved with the direct calls see.
StoreVehicles ==
    {v \in Vehicles : /\ v.vin \in StoreVINs
                      /\ ~v.charging /\ ~v.outside_temperature /\ ~v.honk_flash}

\* The stores the direct calls start from: every loadable file, nothing ignored.
StoreInit ==
    /\ Init
    /\ ignore_vins = {}
    /\ ignore_accessory_types = {}

StoreNext ==
    \/ \E v \in StoreVehicles : Update(v)
    \/ StoreCall

StoreSpec == StoreInit /\ [][StoreNext]_vars

-----------------------------------------------------------------------------
(* The garage: capabilities that become enabled and the observer of the
   garage, bridge.py install_observers / __on_garage_update *)

\* The capabilities that become enabled on the vehicle of the garage.
GarageCapabilities == {"climatization", "charging", "lock-unlock"}

\* The vehicle when Plugin.__delayed_update runs: enabled, with some of its
\* capabilities already enabled.
GarageVehicles ==
    { Vehicle("WVW123", TRUE, TRUE, caps, cs, gs, gs) :
        caps \in SUBSET GarageCapabilities, cs \in BOOLEAN, gs \in BOOLEAN }

\* The bridge is constructed without a file or from the file of an earlier
\* run.
GarageInit ==
    /\ BridgeInit
    /\ config_file \in {NoFile, File(("WVW123-Climatization" :> StoredClimatization)
                                      @@ ("TMB456-Locking" :> StoredLocking))}
    /\ vehicle \in GarageVehicles
    /\ accessory_obj = NoAccessory
    /\ timers = <<>>
    /\ now = 0
    /\ stop_event = FALSE
    /\ threads = <<>>

\* Plugin.__delayed_update: installs the observer of the garage and runs the
\* first pass for the vehicle.
DelayedUpdate ==
    /\ last_op.op = "init"
    /\ UpdatePass(vehicle)

\* The Vehicle Model enables a capability of the vehicle; state_enabled says
\* whether the capability's state attributes are enabled with it.
EnableCapability(cap, state_enabled) ==
    /\ constructed
    /\ last_op.op # "init"
    /\ cap \in GarageCapabilities
    /\ vehicle' =
         CASE cap = "climatization" /\ ~vehicle.climatization ->
                [vehicle EXCEPT !.climatization = TRUE, !.climatization_state = state_enabled]
           [] cap = "charging" /\ ~vehicle.charging ->
                [vehicle EXCEPT !.charging = TRUE, !.charging_state = state_enabled,
                                !.connection_state = state_enabled]
           [] cap = "lock-unlock" /\ ~vehicle.lock_unlock ->
                [vehicle EXCEPT !.lock_unlock = TRUE]
           [] OTHER -> vehicle
    /\ vehicle' # vehicle
    /\ last_op' = [NoOp EXCEPT !.op = "capability_enabled", !.vehicle = vehicle']
    /\ UNCHANGED <<accessory_config, next_aid, accessories, config_file, ignore_vins,
                   ignore_accessory_types, constructed, accessory_obj, timers, now, stop_event, threads>>

\* __on_garage_update(element, ENABLED): a pass for the element when it is a
\* GenericVehicle, nothing for any other element.
OnGarageUpdate(element_is_vehicle) ==
    /\ constructed
    /\ last_op.op # "init"
    /\ IF element_is_vehicle
       THEN UpdatePass(vehicle)
       ELSE /\ last_op' = [NoOp EXCEPT !.op = "garage_update", !.vehicle = vehicle]
            /\ UNCHANGED <<accessory_config, next_aid, accessories, config_file, ignore_vins,
                           ignore_accessory_types, constructed,
                           vehicle, accessory_obj, timers, now, stop_event, threads>>

GarageNext ==
    \/ DelayedUpdate
    \/ \E cap \in GarageCapabilities, state_enabled \in BOOLEAN :
          EnableCapability(cap, state_enabled)
    \/ \E element_is_vehicle \in BOOLEAN : OnGarageUpdate(element_is_vehicle)

\* The first pass runs, and ENABLED notifications whose element is the
\* vehicle keep arriving while a pass for it would change something.
GarageSpec ==
    /\ GarageInit
    /\ [][GarageNext]_vars
    /\ WF_vars(DelayedUpdate)
    /\ WF_vars(OnGarageUpdate(TRUE))

-----------------------------------------------------------------------------
(* Timers and the fault characteristic: generic_accessory.py *)

\* threading.Timer(interval, function, [arg]) started at t.
Timer(kind, deadline, arg) == [kind |-> kind, deadline |-> deadline, arg |-> arg]

\* Timer.is_alive(): started and neither fired nor cancelled.
IsAlive(T, h) == \E i \in 1..Len(T) : T[i] = h

\* Timer.cancel(): the timer leaves the started timers without running.
Cancel(T, h) ==
    IF ~IsAlive(T, h)
    THEN T
    ELSE LET i == CHOOSE j \in 1..Len(T) : T[j] = h /\ \A k \in 1..(j - 1) : T[k] # h
         IN  SubSeq(T, 1, i - 1) \o SubSeq(T, i + 1, Len(T))

\* The started timers of one kind.
TimersOf(T, kind) == SelectSeq(T, LAMBDA tm : tm.kind = kind)

\* Python's None for the timeout_value argument.
NoTimeoutValue == -1

\* The timeout every caller of set_status_fault passes, in seconds.
FaultTimeout == 120

\* set_status_fault that starts its timer without cancelling a pending one.
set_status_fault_without_cancel(a, T, t, value, timeout, timeout_value) ==
    IF timeout = 0
    THEN [accessory |-> [a EXCEPT !.char_status_fault = value], timers |-> T,
          cancelled |-> FALSE]
    ELSE LET tm == Timer("status_fault", t + timeout,
                         IF timeout_value = NoTimeoutValue
                         THEN a.char_status_fault ELSE timeout_value)
         IN  [accessory |-> [a EXCEPT !.char_status_fault = value,
                                      !.char_status_fault_timer = tm],
              timers    |-> Append(T, tm),
              cancelled |-> FALSE]

\* set_status_fault that reads the default of timeout_value after it has
\* written value.
set_status_fault_reads_after_write(a, T, t, value, timeout, timeout_value) ==
    LET h         == a.char_status_fault_timer
        cancelled == h # NoTimer /\ IsAlive(T, h)
        T1        == IF cancelled THEN Cancel(T, h) ELSE T
        h1        == IF cancelled THEN NoTimer ELSE h
        tm        == Timer("status_fault", t + timeout,
                           IF timeout_value = NoTimeoutValue THEN value ELSE timeout_value)
    IN  IF timeout = 0
        THEN [accessory |-> [a EXCEPT !.char_status_fault = value,
                                      !.char_status_fault_timer = h1],
              timers    |-> T1,
              cancelled |-> cancelled]
        ELSE [accessory |-> [a EXCEPT !.char_status_fault = value,
                                      !.char_status_fault_timer = tm],
              timers    |-> Append(T1, tm),
              cancelled |-> cancelled]

\* set_status_fault(value, timeout, timeout_value) at time t on the accessory
\* a with the started timers T: the accessory and the timers after the call,
\* and whether a pending revert timer was cancelled.
set_status_fault(a, T, t, value, timeout, timeout_value) ==
    LET h         == a.char_status_fault_timer
        cancelled == h # NoTimer /\ IsAlive(T, h)
        T1        == IF cancelled THEN Cancel(T, h) ELSE T
        h1        == IF cancelled THEN NoTimer ELSE h
        tm        == Timer("status_fault", t + timeout,
                           IF timeout_value = NoTimeoutValue
                           THEN a.char_status_fault ELSE timeout_value)
    IN  IF timeout = 0
        THEN [accessory |-> [a EXCEPT !.char_status_fault = value,
                                      !.char_status_fault_timer = h1],
              timers    |-> T1,
              cancelled |-> cancelled]
        ELSE [accessory |-> [a EXCEPT !.char_status_fault = value,
                                      !.char_status_fault_timer = tm],
              timers    |-> Append(T1, tm),
              cancelled |-> cancelled]

\* __reset_status_fault(value)
reset_status_fault(a, value) == [a EXCEPT !.char_status_fault = value]

\* The record of a set_status_fault call in last_op.
FaultCall(value, timeout, timeout_value, cancelled) ==
    [made |-> TRUE, value |-> value, timeout |-> timeout, timeout_value |-> timeout_value,
     cancelled |-> cancelled]

-----------------------------------------------------------------------------
(* The door lock accessory: locking_system.py *)

\* Values of vehicle.doors.lock_state; "other" is any value that is none of
\* the four members tested, None included.
LockStates == {"LOCKED", "UNLOCKED", "INVALID", "UNKNOWN", "other"}

\* The callback that reports an unsecured target with a jammed lock.
on_cc_lock_state_change_jammed_unsecured(a, state) ==
    LET ct == CASE state = "LOCKED"   -> <<1, 1>>
                [] state = "UNLOCKED" -> <<0, 0>>
                [] OTHER              -> <<3, 0>>
    IN  IF a.char_lock_current_state = NoCharacteristic
        THEN a
        ELSE [a EXCEPT !.char_lock_current_state = ct[1],
                       !.char_lock_target_state =
                           IF a.char_lock_target_state # NoCharacteristic THEN ct[2] ELSE @]

\* __on_cc_lock_state_change(element) with element.value = state: the pair
\* written to LockCurrentState and, where it is configured, LockTargetState.
on_cc_lock_state_change(a, state) ==
    LET ct == CASE state = "LOCKED"   -> <<1, 1>>
                [] state = "UNLOCKED" -> <<0, 0>>
                [] OTHER              -> <<3, 1>>
    IN  IF a.char_lock_current_state = NoCharacteristic
        THEN a
        ELSE [a EXCEPT !.char_lock_current_state = ct[1],
                       !.char_lock_target_state =
                           IF a.char_lock_target_state # NoCharacteristic THEN ct[2] ELSE @]

\* The target the handler writes when the command cannot be or was not
\* executed.
RevertedLockTarget(a) ==
    IF a.char_lock_current_state # NoCharacteristic /\ a.char_lock_current_state \in {1, 3}
    THEN 1 ELSE 0

\* The handler that leaves the written target in place on a setter error.
on_hk_lock_target_state_change_keeps_target(a, T, t, value, raises) ==
    LET f == set_status_fault(a, T, t, 1, FaultTimeout, NoTimeoutValue)
    IN  IF a.lock_unlock_command_enabled /\ value \in {0, 1} /\ ~raises
        THEN [accessory |-> a, timers |-> T,
              result |-> IF value = 1 THEN "LOCK" ELSE "UNLOCK",
              fault_call |-> NoFaultCall]
        ELSE [accessory |-> f.accessory, timers |-> f.timers,
              result |-> IF ~a.lock_unlock_command_enabled THEN "cannot be controlled"
                         ELSE IF value \in {0, 1} THEN "SetterError" ELSE "not understood",
              fault_call |-> FaultCall(1, FaultTimeout, NoTimeoutValue, f.cancelled)]

\* The handler that takes every value other than 0 for a request to lock.
on_hk_lock_target_state_change_nonzero_locks(a, T, t, value, raises) ==
    LET reverted == [a EXCEPT !.char_lock_target_state = RevertedLockTarget(a)]
        f  == set_status_fault(a, T, t, 1, FaultTimeout, NoTimeoutValue)
        fr == set_status_fault(reverted, T, t, 1, FaultTimeout, NoTimeoutValue)
    IN  IF a.lock_unlock_command_enabled
        THEN IF value \in {0, 1}
             THEN IF ~raises
                  THEN [accessory |-> a, timers |-> T,
                        result |-> IF value = 1 THEN "LOCK" ELSE "UNLOCK",
                        fault_call |-> NoFaultCall]
                  ELSE [accessory |-> fr.accessory, timers |-> fr.timers,
                        result |-> "SetterError",
                        fault_call |-> FaultCall(1, FaultTimeout, NoTimeoutValue, fr.cancelled)]
             ELSE [accessory |-> a, timers |-> T, result |-> "LOCK",
                   fault_call |-> NoFaultCall]
        ELSE [accessory |-> fr.accessory, timers |-> fr.timers,
              result |-> "cannot be controlled",
              fault_call |-> FaultCall(1, FaultTimeout, NoTimeoutValue, fr.cancelled)]

\* __on_hk_lock_target_state_change(value) at time t; raises says whether
\* assigning the command raises SetterError. result names the branch taken:
\* the command issued, or why none was.
on_hk_lock_target_state_change(a, T, t, value, raises) ==
    LET reverted == [a EXCEPT !.char_lock_target_state = RevertedLockTarget(a)]
        f  == set_status_fault(a, T, t, 1, FaultTimeout, NoTimeoutValue)
        fr == set_status_fault(reverted, T, t, 1, FaultTimeout, NoTimeoutValue)
    IN  IF a.lock_unlock_command_enabled
        THEN IF value \in {0, 1}
             THEN IF ~raises
                  THEN [accessory |-> a, timers |-> T,
                        result |-> IF value = 1 THEN "LOCK" ELSE "UNLOCK",
                        fault_call |-> NoFaultCall]
                  ELSE [accessory |-> fr.accessory, timers |-> fr.timers,
                        result |-> "SetterError",
                        fault_call |-> FaultCall(1, FaultTimeout, NoTimeoutValue, fr.cancelled)]
             ELSE [accessory |-> f.accessory, timers |-> f.timers,
                   result |-> "not understood",
                   fault_call |-> FaultCall(1, FaultTimeout, NoTimeoutValue, f.cancelled)]
        ELSE [accessory |-> fr.accessory, timers |-> fr.timers,
              result |-> "cannot be controlled",
              fault_call |-> FaultCall(1, FaultTimeout, NoTimeoutValue, fr.cancelled)]

\* The LockingAccessory objects after construction: the fault characteristic
\* is 0, LockCurrentState is configured when doors.lock_state is enabled and
\* then set, with the target, from the lock state. LockTargetState is
\* configured when the doors have the lock-unlock command; without the
\* command only the current state is set.
LockingAccessories ==
    { [NoAccessory EXCEPT !.class = "LockingAccessory",
                          !.char_lock_current_state = ct[1],
                          !.char_lock_target_state = ct[2],
                          !.lock_unlock_command_enabled = en] :
        ct \in {<<NoCharacteristic, 0>>, <<1, 1>>, <<0, 0>>, <<3, 1>>}, en \in BOOLEAN }
    \cup { [NoAccessory EXCEPT !.class = "LockingAccessory",
                               !.char_lock_current_state = current,
                               !.char_lock_target_state = NoCharacteristic] :
             current \in {0, 1, 3} }

\* A fresh bridge, and the accessory object of a door lock.
FaultInit ==
    /\ BridgeInit
    /\ config_file = NoFile
    /\ ignore_vins = {}
    /\ vehicle = NoVehicle
    /\ accessory_obj \in LockingAccessories
    /\ timers = <<>>
    /\ now = 0
    /\ stop_event = FALSE
    /\ threads = <<>>

\* The clock may reach this value where fault timers are explored.
MaxFaultTime == 240

\* The step of the clock where fault timers are explored: half the timeout.
FaultClockStep == FaultTimeout \div 2

\* The Vehicle Model delivers a lock state.
LockStateChange(state) ==
    /\ accessory_obj.class = "LockingAccessory"
    /\ accessory_obj.char_lock_current_state # NoCharacteristic
    /\ accessory_obj' = on_cc_lock_state_change(accessory_obj, state)
    /\ last_op' = [NoOp EXCEPT !.op = "lock_state_change", !.result = state]
    /\ UNCHANGED <<accessory_config, next_aid, accessories, config_file, ignore_vins,
                   ignore_accessory_types, constructed, vehicle, timers, now, stop_event, threads>>

\* The host writes value to LockTargetState: the characteristic takes the
\* value and the setter callback runs.
LockTargetStateChange(value, raises) ==
    /\ accessory_obj.class = "LockingAccessory"
    /\ accessory_obj.char_lock_target_state # NoCharacteristic
    /\ LET r == on_hk_lock_target_state_change(
                    [accessory_obj EXCEPT !.char_lock_target_state = value],
                    timers, now, value, raises)
       IN  /\ accessory_obj' = r.accessory
           /\ timers' = r.timers
           /\ last_op' = [NoOp EXCEPT !.op = "lock_target_state_change", !.value = value,
                                      !.result = r.result, !.fault_call = r.fault_call]
    /\ UNCHANGED <<accessory_config, next_aid, accessories, config_file, ignore_vins,
                   ignore_accessory_types, constructed, vehicle, now, stop_event, threads>>

\* A fault-revert timer whose interval has passed runs __reset_status_fault.
ResetStatusFault ==
    \E i \in 1..Len(timers) :
        /\ timers[i].kind = "status_fault"
        /\ timers[i].deadline <= now
        /\ accessory_obj' = reset_status_fault(accessory_obj, timers[i].arg)
        /\ timers' = Cancel(timers, timers[i])
        /\ last_op' = [NoOp EXCEPT !.op = "reset_status_fault", !.value = timers[i].arg]
        /\ UNCHANGED <<accessory_config, next_aid, accessories, config_file, ignore_vins,
                       ignore_accessory_types, constructed, vehicle, now, stop_event, threads>>

\* The clock advances by step seconds, not past max and not past the
\* deadline of a started timer.
Advance(step, max) ==
    /\ accessory_obj.class # "None"
    /\ now + step <= max
    /\ \A i \in 1..Len(timers) : timers[i].deadline >= now + step
    /\ now' = now + step
    /\ last_op' = [NoOp EXCEPT !.op = "advance"]
    /\ UNCHANGED <<accessory_config, next_aid, accessories, config_file, ignore_vins,
                   ignore_accessory_types, constructed, vehicle, accessory_obj, timers,
                   stop_event, threads>>

FaultNext ==
    \/ \E state \in LockStates : LockStateChange(state)
    \/ \E value \in {0, 1, 2}, raises \in BOOLEAN : LockTargetStateChange(value, raises)
    \/ ResetStatusFault
    \/ Advance(FaultClockStep, MaxFaultTime)

FaultSpec == FaultInit /\ [][FaultNext]_vars

\* Arguments of the direct set_status_fault calls.
FaultTimeouts == {0, FaultClockStep, FaultTimeout}

\* set_status_fault called directly on the accessory.
SetStatusFault(value, timeout, timeout_value) ==
    /\ accessory_obj.class # "None"
    /\ LET r == set_status_fault(accessory_obj, timers, now, value, timeout, timeout_value)
       IN  /\ accessory_obj' = r.accessory
           /\ timers' = r.timers
           /\ last_op' = [NoOp EXCEPT !.op = "set_status_fault", !.value = value,
                                      !.fault_call = FaultCall(value, timeout, timeout_value,
                                                               r.cancelled)]
    /\ UNCHANGED <<accessory_config, next_aid, accessories, config_file, ignore_vins,
                   ignore_accessory_types, constructed, vehicle, now, stop_event, threads>>

FaultCallNext ==
    \/ FaultNext
    \/ \E value \in {0, 1}, timeout \in FaultTimeouts, timeout_value \in {NoTimeoutValue, 0, 1} :
          SetStatusFault(value, timeout, timeout_value)

FaultCallSpec == FaultInit /\ [][FaultCallNext]_vars

-----------------------------------------------------------------------------
(* The countdown of the climate and charging accessories: climatization.py,
   charging.py.  The two classes carry the same two methods. *)

\* Python's None for estimated_date_reached.
NoDate == -1

\* The interval of the recompute timer, in seconds.
UpdateInterval == 5

\* The started recompute timers.
CountdownTimers(T) == TimersOf(T, "remaining_duration")

\* __update_remaining_duration that starts its timer without cancelling the
\* one it holds.
update_remaining_duration_without_cancel(a, T, t, stop) ==
    LET remaining == IF a.estimated_date_reached # NoDate /\ a.estimated_date_reached > t
                     THEN a.estimated_date_reached - t ELSE 0
        tm        == Timer("remaining_duration", t + UpdateInterval, 0)
    IN  IF a.char_remaining_duration = NoCharacteristic
        THEN [accessory |-> a, timers |-> T]
        ELSE IF remaining > 0 /\ ~stop
             THEN [accessory |-> [a EXCEPT !.char_remaining_duration = remaining,
                                           !.update_remaining_duration_timer = tm],
                   timers    |-> Append(T, tm)]
             ELSE [accessory |-> [a EXCEPT !.char_remaining_duration = remaining],
                   timers    |-> T]

\* __update_remaining_duration that starts a timer whatever the remaining
\* duration and the stop event are.
update_remaining_duration_always_reschedules(a, T, t, stop) ==
    LET h         == a.update_remaining_duration_timer
        T1        == IF h # NoTimer THEN Cancel(T, h) ELSE T
        remaining == IF a.estimated_date_reached # NoDate /\ a.estimated_date_reached > t
                     THEN a.estimated_date_reached - t ELSE 0
        tm        == Timer("remaining_duration", t + UpdateInterval, 0)
    IN  IF a.char_remaining_duration = NoCharacteristic
        THEN [accessory |-> [a EXCEPT !.update_remaining_duration_timer = NoTimer],
              timers    |-> T1]
        ELSE [accessory |-> [a EXCEPT !.char_remaining_duration = remaining,
                                      !.update_remaining_duration_timer = tm],
              timers    |-> Append(T1, tm)]

\* __update_remaining_duration() at time t on the accessory a with the started
\* timers T; stop is driver.stop_event.is_set().  The difference of two whole
\* seconds is its own rounding.
update_remaining_duration(a, T, t, stop) ==
    LET h         == a.update_remaining_duration_timer
        T1        == IF h # NoTimer THEN Cancel(T, h) ELSE T
        remaining == IF a.estimated_date_reached # NoDate /\ a.estimated_date_reached > t
                     THEN a.estimated_date_reached - t ELSE 0
        tm        == Timer("remaining_duration", t + UpdateInterval, 0)
    IN  IF a.char_remaining_duration = NoCharacteristic
        THEN [accessory |-> [a EXCEPT !.update_remaining_duration_timer = NoTimer],
              timers    |-> T1]
        ELSE IF remaining > 0 /\ ~stop
             THEN [accessory |-> [a EXCEPT !.char_remaining_duration = remaining,
                                           !.update_remaining_duration_timer = tm],
                   timers    |-> Append(T1, tm)]
             ELSE [accessory |-> [a EXCEPT !.char_remaining_duration = remaining,
                                           !.update_remaining_duration_timer = NoTimer],
                   timers    |-> T1]

\* __on_cc_estimated_date_reached_change(element) with flag
\* UPDATED_NEW_MEASUREMENT; value is element.value, NoDate when the element is
\* not enabled or holds no datetime.
on_cc_estimated_date_reached_change(a, T, t, value, stop) ==
    IF a.char_remaining_duration = NoCharacteristic
    THEN [accessory |-> a, timers |-> T]
    ELSE IF value # NoDate
         THEN update_remaining_duration([a EXCEPT !.estimated_date_reached = value],
                                        T, t, stop)
         ELSE [accessory |-> [a EXCEPT !.estimated_date_reached = NoDate,
                                       !.char_remaining_duration = 0],
               timers    |-> T]

\* The clock may reach this value where the countdown is explored.
MaxCountdownTime == 30

\* The completion timestamps the Vehicle Model delivers, in seconds.
Dates == {7, 15}

\* A climate or charging accessory after construction with the vehicle's
\* estimated_date_reached attribute present and not enabled: RemainingDuration
\* is configured and nothing is scheduled.
CountdownAccessories ==
    { [NoAccessory EXCEPT !.class = c,
                          !.estimated_date_reached = NoDate,
                          !.char_remaining_duration = 0] :
        c \in {"ClimatizationAccessory", "ChargingAccessory"} }

CountdownInit ==
    /\ BridgeInit
    /\ config_file = NoFile
    /\ ignore_vins = {}
    /\ vehicle = NoVehicle
    /\ accessory_obj \in CountdownAccessories
    /\ timers = <<>>
    /\ now = 0
    /\ stop_event = FALSE
    /\ threads = <<>>

\* The Vehicle Model delivers a measurement of estimated_date_reached.
EstimatedDateReachedChange(value) ==
    /\ accessory_obj.class \in {"ClimatizationAccessory", "ChargingAccessory"}
    /\ LET r == on_cc_estimated_date_reached_change(accessory_obj, timers, now, value,
                                                    stop_event)
       IN  /\ accessory_obj' = r.accessory
           /\ timers' = r.timers
    /\ last_op' = [NoOp EXCEPT !.op = "estimated_date_reached_change", !.value = value,
                               !.repeat = (/\ last_op.op = "estimated_date_reached_change"
                                           /\ last_op.value = value)]
    /\ UNCHANGED <<accessory_config, next_aid, accessories, config_file, ignore_vins,
                   ignore_accessory_types, constructed, vehicle, now, stop_event, threads>>

\* A recompute timer whose interval has passed runs
\* __update_remaining_duration.
UpdateRemainingDuration ==
    \E i \in 1..Len(timers) :
        /\ timers[i].kind = "remaining_duration"
        /\ timers[i].deadline <= now
        /\ LET r == update_remaining_duration(accessory_obj, Cancel(timers, timers[i]),
                                              now, stop_event)
           IN  /\ accessory_obj' = r.accessory
               /\ timers' = r.timers
        /\ last_op' = [NoOp EXCEPT !.op = "update_remaining_duration"]
        /\ UNCHANGED <<accessory_config, next_aid, accessories, config_file, ignore_vins,
                       ignore_accessory_types, constructed, vehicle, now, stop_event, threads>>

\* Plugin.shutdown stops the driver, which sets driver.stop_event.
Stop ==
    /\ accessory_obj.class # "None"
    /\ ~stop_event
    /\ stop_event' = TRUE
    /\ last_op' = [NoOp EXCEPT !.op = "stop"]
    /\ UNCHANGED <<accessory_config, next_aid, accessories, config_file, ignore_vins,
                   ignore_accessory_types, constructed, vehicle, accessory_obj, timers,
                   now, threads>>

CountdownNext ==
    \/ \E value \in Dates \cup {NoDate} : EstimatedDateReachedChange(value)
    \/ UpdateRemainingDuration
    \/ Advance(UpdateInterval, MaxCountdownTime)
    \/ Stop

\* Time passes and a timer whose interval has passed runs.
CountdownSpec ==
    /\ CountdownInit
    /\ [][CountdownNext]_vars
    /\ WF_vars(Advance(UpdateInterval, MaxCountdownTime))
    /\ WF_vars(UpdateRemainingDuration)

-----------------------------------------------------------------------------
(* The flashing light accessory: flashing.py *)

\* The interval of the timer that resets On, in seconds.
FlashDuration == 10

\* The started timers that reset On.
FlashTimers(T) == TimersOf(T, "reset_state")

\* The handler that issues the command and starts no timer.
FlashingLight_on_hk_on_change_without_timer(a, T, t, value, raises) ==
    IF a.command_enabled /\ value /\ ~raises
    THEN [accessory |-> a, timers |-> T, result |-> "FLASH", fault_call |-> NoFaultCall]
    ELSE [accessory |-> a, timers |-> T, result |-> "", fault_call |-> NoFaultCall]

\* FlashingLightAccessory.__on_hk_on_change(value) at time t; value is the
\* bool the host hands over and raises says whether assigning the command
\* raises SetterError. result names the command issued or why none was.
FlashingLight_on_hk_on_change(a, T, t, value, raises) ==
    LET off == IF a.char_on # NoCharacteristic THEN [a EXCEPT !.char_on = 0] ELSE a
        f   == set_status_fault(off, T, t, 1, FaultTimeout, NoTimeoutValue)
    IN  IF a.command_enabled
        THEN IF value
             THEN IF ~raises
                  THEN [accessory |-> a,
                        timers    |-> Append(T, Timer("reset_state", t + FlashDuration, 0)),
                        result    |-> "FLASH",
                        fault_call |-> NoFaultCall]
                  ELSE [accessory |-> f.accessory, timers |-> f.timers,
                        result    |-> "SetterError",
                        fault_call |-> FaultCall(1, FaultTimeout, NoTimeoutValue, f.cancelled)]
             ELSE [accessory |-> a, timers |-> T, result |-> "cannot be turned off",
                   fault_call |-> NoFaultCall]
        ELSE [accessory |-> a, timers |-> T, result |-> "not enabled",
              fault_call |-> NoFaultCall]

\* reset_state(), the function of the timer.
reset_state(a) == IF a.char_on # NoCharacteristic THEN [a EXCEPT !.char_on = 0] ELSE a

\* The FlashingLightAccessory objects after construction for a vehicle that
\* has the honk-flash command: On is configured and off.
FlashingLightAccessories ==
    { [NoAccessory EXCEPT !.class = "FlashingLightAccessory",
                          !.char_on = 0,
                          !.command_enabled = en] : en \in BOOLEAN }

FlashInit ==
    /\ BridgeInit
    /\ config_file = NoFile
    /\ ignore_vins = {}
    /\ vehicle = NoVehicle
    /\ accessory_obj \in FlashingLightAccessories
    /\ timers = <<>>
    /\ now = 0
    /\ stop_event = FALSE
    /\ threads = <<>>

\* The clock may reach this value where the flashing light is explored.
MaxFlashTime == 30

\* At most this many timers are started at a time where the flashing light
\* is explored.
MaxFlashTimers == 3

\* The step of the clock where the flashing light is explored.
FlashClockStep == FlashDuration \div 2

\* The host writes value to On: the characteristic takes the value and the
\* setter callback runs.
FlashOnChange(value, raises) ==
    /\ accessory_obj.class = "FlashingLightAccessory"
    /\ now + FlashDuration <= MaxFlashTime
    /\ Len(timers) < MaxFlashTimers
    /\ LET r == FlashingLight_on_hk_on_change(
                    [accessory_obj EXCEPT !.char_on = IF value THEN 1 ELSE 0],
                    timers, now, value, raises)
       IN  /\ accessory_obj' = r.accessory
           /\ timers' = r.timers
           /\ last_op' = [NoOp EXCEPT !.op = "flash_on_change",
                                      !.value = IF value THEN 1 ELSE 0,
                                      !.raised = FALSE,
                                      !.result = r.result, !.fault_call = r.fault_call]
    /\ UNCHANGED <<accessory_config, next_aid, accessories, config_file, ignore_vins,
                   ignore_accessory_types, constructed, vehicle, now, stop_event, threads>>

\* A reset timer whose interval has passed runs reset_state.
ResetState ==
    \E i \in 1..Len(timers) :
        /\ timers[i].kind = "reset_state"
        /\ timers[i].deadline <= now
        /\ accessory_obj' = reset_state(accessory_obj)
        /\ timers' = Cancel(timers, timers[i])
        /\ last_op' = [NoOp EXCEPT !.op = "reset_state", !.value = timers[i].deadline]
        /\ UNCHANGED <<accessory_config, next_aid, accessories, config_file, ignore_vins,
                       ignore_accessory_types, constructed, vehicle, now, stop_event,
                       threads>>

FlashNext ==
    \/ \E value \in BOOLEAN, raises \in BOOLEAN : FlashOnChange(value, raises)
    \/ ResetState
    \/ Advance(FlashClockStep, MaxFlashTime)

\* Time passes and a timer whose interval has passed runs.
FlashSpec ==
    /\ FlashInit
    /\ [][FlashNext]_vars
    /\ WF_vars(Advance(FlashClockStep, MaxFlashTime))
    /\ WF_vars(ResetState)

-----------------------------------------------------------------------------
(* Deliveries of one attribute's change event on two threads, statement by
   statement: locking_system.py, generic_accessory.py, outside_temperature.py.
   A thread is [callback, value, pc, unit]: the observer called, element.value,
   the statement it is about to run, and the display unit it has read. *)

\* The observer callbacks followed: __on_cc_lock_state_change,
\* _on_level_change, _on_charging_state, __on_cc_outside_temperature_change.
Callbacks == {"lock_state", "level", "charging_state", "outside_temperature"}

\* Whether the body of the callback is a `with self.<lock>:` block.
HasLock(callback) == callback = "lock_state"

\* The class whose objects register the callback; the two battery callbacks
\* are those of BatteryGenericVehicleAccessory, the base of the climate and
\* charging accessories.
CallbackClasses(callback) ==
    CASE callback = "lock_state"          -> {"LockingAccessory"}
      [] callback = "outside_temperature" -> {"OutsideTemperatureAccessory"}
      [] OTHER                            -> {"ClimatizationAccessory", "ChargingAccessory"}

\* The values delivered: lock states, battery levels in percent, charging
\* states, temperatures in degrees Celsius.
DeliveredValues(callback) ==
    CASE callback = "lock_state"          -> {"LOCKED", "UNLOCKED"}
      [] callback = "level"               -> {5, 50}
      [] callback = "charging_state"      -> {"OFF", "CHARGING", "ERROR"}
      [] callback = "outside_temperature" -> {0, 20}

\* The first statement of the body that reads or writes a characteristic.
FirstStatement(callback) ==
    CASE callback = "lock_state"          -> "write_current"
      [] callback = "level"               -> "write_level"
      [] callback = "charging_state"      -> "write_charging_state"
      [] callback = "outside_temperature" -> "read_unit"

\* The thread is inside the body of its callback.
Inside(th) == th.pc \notin {"call", "done"}

\* _set_low_battery_status(level) for a level that is not None.
set_low_battery_status(a, level) ==
    IF a.char_status_low_battery = NoCharacteristic THEN a
    ELSE [a EXCEPT !.char_status_low_battery = IF level > 10 THEN 0 ELSE 1]

\* _set_charging_state(charging_state) for a state that is not None.
set_charging_state(a, charging_state) ==
    IF a.char_charging_state = NoCharacteristic THEN a
    ELSE [a EXCEPT !.char_charging_state =
                      CASE charging_state \in {"OFF", "READY_FOR_CHARGING", "UNSUPPORTED"} -> 0
                        [] charging_state \in {"CHARGING", "DISCHARGING", "CONSERVATION"} -> 1
                        [] OTHER -> 2]

\* element.temperature_in(unit) of a temperature held in degrees Celsius;
\* unit is the value of TemperatureDisplayUnits, 0 Celsius and 1 Fahrenheit.
temperature_in(celsius, unit) == IF unit = 1 THEN (celsius * 9) \div 5 + 32 ELSE celsius

\* The statement at th.pc run on the accessory a: the accessory, and the
\* thread, after it.
Statement(a, th) ==
    CASE th.pc = "write_current" ->
           [accessory |-> [a EXCEPT !.char_lock_current_state =
                              on_cc_lock_state_change(a, th.value).char_lock_current_state],
            thread    |-> [th EXCEPT !.pc = "write_target"]]
      [] th.pc = "write_target" ->
           [accessory |-> [a EXCEPT !.char_lock_target_state =
                              on_cc_lock_state_change(a, th.value).char_lock_target_state],
            thread    |-> [th EXCEPT !.pc = "done"]]
      [] th.pc = "write_level" ->
           [accessory |-> [a EXCEPT !.char_battery_level = th.value],
            thread    |-> [th EXCEPT !.pc = "write_low_battery"]]
      [] th.pc = "write_low_battery" ->
           [accessory |-> set_low_battery_status(a, th.value),
            thread    |-> [th EXCEPT !.pc = "done"]]
      [] th.pc = "write_charging_state" ->
           [accessory |-> set_charging_state(a, th.value),
            thread    |-> [th EXCEPT !.pc = "done"]]
      [] th.pc = "read_unit" ->
           [accessory |-> a,
            thread    |-> [th EXCEPT !.pc = "write_temperature",
                                     !.unit = a.char_temperature_display_units]]
      [] th.pc = "write_temperature" ->
           [accessory |-> [a EXCEPT !.char_current_temperature =
                                       temperature_in(th.value, th.unit)],
            thread    |-> [th EXCEPT !.pc = "done"]]

\* The accessories after construction whose observers are followed: a door
\* lock that is locked, a climate or charging accessory of an electric
\* vehicle with its battery service, an outside temperature sensor.
DeliveryAccessories ==
    {[NoAccessory EXCEPT !.class = "LockingAccessory",
                         !.char_lock_current_state = 1, !.char_lock_target_state = 1]}
    \cup {[NoAccessory EXCEPT !.class = c, !.char_battery_level = 50,
                              !.char_status_low_battery = 0, !.char_charging_state = 0] :
             c \in {"ClimatizationAccessory", "ChargingAccessory"}}
    \cup {[NoAccessory EXCEPT !.class = "OutsideTemperatureAccessory",
                              !.char_temperature_display_units = unit,
                              !.char_current_temperature = temperature_in(0, unit)] :
             unit \in {0, 1}}

DeliveryInit ==
    /\ BridgeInit
    /\ config_file = NoFile
    /\ ignore_vins = {}
    /\ vehicle = NoVehicle
    /\ accessory_obj \in DeliveryAccessories
    /\ timers = <<>>
    /\ now = 0
    /\ stop_event = FALSE
    /\ threads = <<>>

\* At most this many deliveries are followed.
MaxDeliveries == 2

\* The Vehicle Model calls the observer on a thread of its own with flag
\* VALUE_CHANGED.
Deliver(callback, value) ==
    /\ accessory_obj.class \in CallbackClasses(callback)
    /\ Len(threads) < MaxDeliveries
    /\ threads' = Append(threads, [callback |-> callback, value |-> value,
                                   pc |-> "call", unit |-> 0])
    /\ last_op' = [NoOp EXCEPT !.op = "deliver", !.result = callback]
    /\ UNCHANGED <<accessory_config, next_aid, accessories, config_file, ignore_vins,
                   ignore_accessory_types, constructed, vehicle, accessory_obj, timers,
                   now, stop_event>>

\* Thread i enters the body of its callback; where the body is a `with`
\* block, once no other thread holds the lock.
Enter(i) ==
    /\ i \in 1..Len(threads)
    /\ threads[i].pc = "call"
    /\ HasLock(threads[i].callback)
       => \A j \in 1..Len(threads) :
             ~(j # i /\ threads[j].callback = threads[i].callback /\ Inside(threads[j]))
    /\ threads' = [threads EXCEPT ![i].pc = FirstStatement(threads[i].callback)]
    /\ last_op' = [NoOp EXCEPT !.op = "enter", !.value = i]
    /\ UNCHANGED <<accessory_config, next_aid, accessories, config_file, ignore_vins,
                   ignore_accessory_types, constructed, vehicle, accessory_obj, timers,
                   now, stop_event>>

\* Thread i runs its next statement; leaving the body releases the lock.
RunStatement(i) ==
    /\ i \in 1..Len(threads)
    /\ Inside(threads[i])
    /\ LET r == Statement(accessory_obj, threads[i])
       IN  /\ accessory_obj' = r.accessory
           /\ threads' = [threads EXCEPT ![i] = r.thread]
    /\ last_op' = [NoOp EXCEPT !.op = "statement", !.value = i, !.result = threads[i].pc]
    /\ UNCHANGED <<accessory_config, next_aid, accessories, config_file, ignore_vins,
                   ignore_accessory_types, constructed, vehicle, timers, now, stop_event>>

DeliveryNext ==
    \/ \E callback \in Callbacks : \E value \in DeliveredValues(callback) :
          Deliver(callback, value)
    \/ \E i \in 1..MaxDeliveries : Enter(i)
    \/ \E i \in 1..MaxDeliveries : RunStatement(i)

DeliverySpec == DeliveryInit /\ [][DeliveryNext]_vars

-----------------------------------------------------------------------------
(* Two reconciliation passes on two threads, statement by statement:
   bridge.py update, select_aid and set_config_item, called from
   Plugin.__delayed_update on its timer thread and from __on_garage_update on
   the thread of the Vehicle Model. update() takes no lock. A statement of the
   source is one step; a thread is [origin, vehicle, block, pc, new_aid, aid,
   constructed_keys]: who called update, its argument, the index in IdStrs of
   the block it is in, the statement it is about to run, the locals of
   select_aid and of the block, and, as history, the identifiers it has
   constructed an accessory for. *)

\* The snapshots the passes are run for: one enabled capability whose state
\* attributes are enabled.
PassVehicles ==
    { Vehicle(vin, TRUE, TRUE, {cap}, TRUE, TRUE, TRUE) :
        vin \in VINs, cap \in {"climatization", "lock-unlock"} }

\* At most this many passes are followed.
MaxPasses == 2

\* The thread after its block: at the test of the next block, or done.
NextBlock(th) ==
    [th EXCEPT !.block = th.block + 1,
               !.pc = IF th.block + 1 > Len(IdStrs) THEN "done" ELSE "test",
               !.new_aid = NoAid, !.aid = NoAid]

\* The statement at th.pc run on the bridge b = [cfg, next_aid, accessories]:
\* the bridge, and the thread, after it.
PassStatement(b, th, ignored_types) ==
    LET v          == th.vehicle
        id_str     == IdStrs[th.block]
        identifier == Identifier(v.vin, id_str)
    IN  CASE th.pc = "test" ->
               [bridge |-> b,
                thread |-> IF NeedsInstall(b, v, id_str, ignored_types)
                           THEN [th EXCEPT !.pc = "select_aid"]
                           ELSE NextBlock(th)]
          [] th.pc = "select_aid" ->
               [bridge |-> b,
                thread |-> IF get_existing_aid(b.cfg, id_str, v.vin) = NoAid
                           THEN [th EXCEPT !.pc = "read_next_aid"]
                           ELSE [th EXCEPT !.pc = "construct",
                                           !.aid = get_existing_aid(b.cfg, id_str, v.vin)]]
          [] th.pc = "read_next_aid" ->
               [bridge |-> b,
                thread |-> [th EXCEPT !.pc = "increment", !.new_aid = b.next_aid]]
          [] th.pc = "increment" ->
               [bridge |-> [b EXCEPT !.next_aid = b.next_aid + 1],
                thread |-> [th EXCEPT !.pc = "write_aid"]]
          [] th.pc = "write_aid" ->
               [bridge |-> [b EXCEPT !.cfg =
                              IF identifier \in DOMAIN b.cfg
                              THEN [b.cfg EXCEPT ![identifier] = WithItem(@, "aid", th.new_aid)]
                              ELSE (identifier :> Entry("aid", th.new_aid)) @@ b.cfg],
                thread |-> [th EXCEPT !.pc = "construct", !.aid = th.new_aid]]
          [] th.pc = "construct" ->
               [bridge |-> b,
                thread |-> IF ConstructorRaises(b.cfg, id_str, v)
                           THEN [th EXCEPT !.pc = "raised"]
                           ELSE [th EXCEPT !.pc = "set_category",
                                           !.constructed_keys = @ \cup {identifier}]]
          [] th.pc = "set_category" ->
               LET b1 == set_config_item([cfg |-> b.cfg, next_aid |-> b.next_aid],
                                         id_str, v.vin, "category",
                                         Category(AccessoryClass(id_str)))
               IN  [bridge |-> [b EXCEPT !.cfg = b1.cfg, !.next_aid = b1.next_aid],
                    thread |-> [th EXCEPT !.pc = "set_services"]]
          [] th.pc = "set_services" ->
               LET b1 == set_config_item([cfg |-> b.cfg, next_aid |-> b.next_aid],
                                         id_str, v.vin, "services",
                                         Services(AccessoryClass(id_str), v))
               IN  [bridge |-> [b EXCEPT !.cfg = b1.cfg, !.next_aid = b1.next_aid],
                    thread |-> [th EXCEPT !.pc = "install"]]
          [] th.pc = "install" ->
               [bridge |-> [b EXCEPT !.accessories =
                              (th.aid :> ConfiguredFromStore(b.cfg, CapabilityAccessory(id_str, v, th.aid)))
                              @@ b.accessories],
                thread |-> NextBlock(th)]

\* A bridge constructed without a file or from the file of an earlier run,
\* with nothing ignored.
PassInit ==
    /\ BridgeInit
    /\ config_file \in {NoFile, File(("WVW123-Climatization" :> StoredClimatization)
                                      @@ ("TMB456-Locking" :> StoredLocking))}
    /\ ignore_vins = {}
    /\ ignore_accessory_types = {}
    /\ vehicle = NoVehicle
    /\ accessory_obj = NoAccessory
    /\ timers = <<>>
    /\ now = 0
    /\ stop_event = FALSE
    /\ threads = <<>>

\* update(v) is called: by __delayed_update, once, on its timer thread after
\* it has installed the observer of the garage, or by __on_garage_update on
\* the thread that delivers the ENABLED event.
StartPass(origin, v) ==
    /\ constructed
    /\ Len(threads) < MaxPasses
    /\ IF origin = "delayed_update"
       THEN threads = <<>>
       ELSE threads # <<>>
    /\ threads' = Append(threads,
                         [origin |-> origin, vehicle |-> v, block |-> 1,
                          pc |-> IF PassesVehicleTest(v, ignore_vins) THEN "test" ELSE "done",
                          new_aid |-> NoAid, aid |-> NoAid, constructed_keys |-> {}])
    /\ last_op' = [NoOp EXCEPT !.op = origin, !.vehicle = v]
    /\ UNCHANGED <<accessory_config, next_aid, accessories, config_file, ignore_vins,
                   ignore_accessory_types, constructed, vehicle, accessory_obj, timers,
                   now, stop_event>>

\* Thread i runs its next statement.
PassStep(i) ==
    /\ i \in 1..Len(threads)
    /\ threads[i].pc \notin {"done", "raised"}
    /\ LET r == PassStatement([cfg |-> accessory_config, next_aid |-> next_aid,
                               accessories |-> accessories],
                              threads[i], ignore_accessory_types)
       IN  /\ accessory_config' = r.bridge.cfg
           /\ next_aid' = r.bridge.next_aid
           /\ accessories' = r.bridge.accessories
           /\ threads' = [threads EXCEPT ![i] = r.thread]
    /\ last_op' = [NoOp EXCEPT !.op = "pass_statement", !.value = i,
                               !.result = threads[i].pc]
    /\ UNCHANGED <<config_file, ignore_vins, ignore_accessory_types, constructed,
                   vehicle, accessory_obj, timers, now, stop_event>>

PassNext ==
    \/ \E origin \in {"delayed_update", "garage_update"}, v \in PassVehicles :
          StartPass(origin, v)
    \/ \E i \in 1..MaxPasses : PassStep(i)

PassSpec == PassInit /\ [][PassNext]_vars

-----------------------------------------------------------------------------
(* The countdown with its two callers on two threads, statement by statement:
   climatization.py and charging.py, __on_cc_estimated_date_reached_change on
   the thread of the Vehicle Model, inside `with` the date lock, and
   __update_remaining_duration as the function of the timer on the timer's
   thread, outside it. A thread is [origin, value, pc, remaining, timer]: who
   runs, the delivered timestamp, the statement it is about to run, the
   local remaining_duration and the Timer object it has created. *)

\* At most this many calls are followed.
MaxCountdownThreads == 3

\* The clock may reach this value where the two callers are followed.
MaxCountdownRaceTime == 10

\* A call still in progress.
Running(th) == th.pc # "done"

\* The observer thread holds the date lock.
HoldsDateLock(th) == th.origin = "observer" /\ th.pc \notin {"acquire", "done"}

\* The statement at th.pc of thread i run at time t on the accessory a with
\* the started timers T: the accessory, the timers and the thread after it.
CountdownStatement(a, T, t, stop, th, i) ==
    LET remaining == IF a.estimated_date_reached # NoDate /\ a.estimated_date_reached > t
                     THEN a.estimated_date_reached - t ELSE 0
        tm        == Timer("remaining_duration", t + UpdateInterval, i)
    IN  CASE th.pc = "acquire" ->
               [accessory |-> a, timers |-> T,
                thread |-> [th EXCEPT !.pc = IF a.char_remaining_duration = NoCharacteristic
                                             THEN "done" ELSE "assign"]]
          [] th.pc = "assign" ->
               IF th.value # NoDate
               THEN [accessory |-> [a EXCEPT !.estimated_date_reached = th.value],
                     timers |-> T, thread |-> [th EXCEPT !.pc = "cancel"]]
               ELSE [accessory |-> [a EXCEPT !.estimated_date_reached = NoDate,
                                             !.char_remaining_duration = 0],
                     timers |-> T, thread |-> [th EXCEPT !.pc = "done"]]
          [] th.pc = "cancel" ->
               [accessory |-> [a EXCEPT !.update_remaining_duration_timer = NoTimer],
                timers    |-> IF a.update_remaining_duration_timer # NoTimer
                              THEN Cancel(T, a.update_remaining_duration_timer) ELSE T,
                thread    |-> [th EXCEPT !.pc = IF a.char_remaining_duration = NoCharacteristic
                                                THEN "done" ELSE "set_value"]]
          [] th.pc = "set_value" ->
               [accessory |-> [a EXCEPT !.char_remaining_duration = remaining],
                timers    |-> T,
                thread    |-> [th EXCEPT !.pc = "create", !.remaining = remaining]]
          [] th.pc = "create" ->
               IF th.remaining > 0 /\ ~stop
               THEN [accessory |-> [a EXCEPT !.update_remaining_duration_timer = tm],
                     timers |-> T, thread |-> [th EXCEPT !.pc = "start", !.timer = tm]]
               ELSE [accessory |-> a, timers |-> T, thread |-> [th EXCEPT !.pc = "done"]]
          [] th.pc = "start" ->
               [accessory |-> a,
                timers    |-> Append(T, a.update_remaining_duration_timer),
                thread    |-> [th EXCEPT !.pc = "done"]]

CountdownRaceInit == CountdownInit

\* The Vehicle Model calls the observer with flag UPDATED_NEW_MEASUREMENT.
DeliverDate(value) ==
    /\ accessory_obj.class \in {"ClimatizationAccessory", "ChargingAccessory"}
    /\ Len(threads) < MaxCountdownThreads
    /\ threads' = Append(threads, [origin |-> "observer", value |-> value, pc |-> "acquire",
                                   remaining |-> 0, timer |-> NoTimer])
    /\ last_op' = [NoOp EXCEPT !.op = "deliver_date", !.value = value]
    /\ UNCHANGED <<accessory_config, next_aid, accessories, config_file, ignore_vins,
                   ignore_accessory_types, constructed, vehicle, accessory_obj, timers,
                   now, stop_event>>

\* A started timer whose interval has passed calls
\* __update_remaining_duration on its own thread.
TimerExpires ==
    \E k \in 1..Len(timers) :
        /\ timers[k].kind = "remaining_duration"
        /\ timers[k].deadline <= now
        /\ Len(threads) < MaxCountdownThreads
        /\ timers' = Cancel(timers, timers[k])
        /\ threads' = Append(threads, [origin |-> "timer", value |-> NoDate, pc |-> "cancel",
                                       remaining |-> 0, timer |-> NoTimer])
        /\ last_op' = [NoOp EXCEPT !.op = "timer_expires"]
        /\ UNCHANGED <<accessory_config, next_aid, accessories, config_file, ignore_vins,
                       ignore_accessory_types, constructed, vehicle, accessory_obj,
                       now, stop_event>>

\* Thread i runs its next statement; an observer thread enters the `with`
\* block once no other thread holds the date lock.
CountdownStep(i) ==
    /\ i \in 1..Len(threads)
    /\ Running(threads[i])
    /\ threads[i].pc = "acquire"
       => \A j \in 1..Len(threads) : ~HoldsDateLock(threads[j])
    /\ LET r == CountdownStatement(accessory_obj, timers, now, stop_event, threads[i], i)
       IN  /\ accessory_obj' = r.accessory
           /\ timers' = r.timers
           /\ threads' = [threads EXCEPT ![i] = r.thread]
    /\ last_op' = [NoOp EXCEPT !.op = "countdown_statement", !.value = i,
                               !.result = threads[i].pc]
    /\ UNCHANGED <<accessory_config, next_aid, accessories, config_file, ignore_vins,
                   ignore_accessory_types, constructed, vehicle, now, stop_event>>

CountdownRaceNext ==
    \/ \E value \in Dates \cup {NoDate} : DeliverDate(value)
    \/ TimerExpires
    \/ \E i \in 1..MaxCountdownThreads : CountdownStep(i)
    \/ Advance(UpdateInterval, MaxCountdownRaceTime)

CountdownRaceSpec == CountdownRaceInit /\ [][CountdownRaceNext]_vars

-----------------------------------------------------------------------------
(* Shutdown of the plugin while accessories hold started timers: plugin.py,
   with the timers of generic_accessory.py, climatization.py, charging.py and
   flashing.py. *)

\* The clock may reach this value where the shutdown is explored: past the
\* interval of a fault-revert timer.
MaxShutdownTime == 130

ShutdownInit ==
    /\ BridgeInit
    /\ config_file = NoFile
    /\ ignore_vins = {}
    /\ vehicle = NoVehicle
    /\ accessory_obj \in FlashingLightAccessories \cup LockingAccessories
                         \cup CountdownAccessories
    /\ timers = <<>>
    /\ now = 0
    /\ stop_event = FALSE
    /\ threads = <<>>

\* The host writes to the characteristics while the driver runs; the Vehicle
\* Model delivers and the started timers run whether it runs or not.
ShutdownNext ==
    \/ \E value \in BOOLEAN, raises \in BOOLEAN : ~stop_event /\ FlashOnChange(value, raises)
    \/ \E value \in {0, 1}, raises \in BOOLEAN :
          ~stop_event /\ LockTargetStateChange(value, raises)
    \/ \E value \in Dates \cup {NoDate} : EstimatedDateReachedChange(value)
    \/ ResetState
    \/ ResetStatusFault
    \/ UpdateRemainingDuration
    \/ Advance(FlashClockStep, MaxShutdownTime)
    \/ Stop

ShutdownSpec == ShutdownInit /\ [][ShutdownNext]_vars

-----------------------------------------------------------------------------
(* The observer callbacks of the state attributes and the setter callbacks of
   the climate, charging, charging plug and window heating accessories:
   climatization.py, charging.py, charging_plug.py, window_heating.py.

   A delivered state is the name of an enum member, "None" for element.value
   None, or "str" for a value that is no enum member, as the str that
   element.value is when the element is itself an enum member. "UNKNOWN"
   also stands for every member the callback does not name. *)

\* state.value can be evaluated: state is an enum member.
HasValueAttribute(state) == state \notin {"None", "str"}

ClimatizationStates == {"None", "HEATING", "COOLING", "VENTILATION", "OFF", "UNKNOWN", "str"}

ChargingStates ==
    {"None", "OFF", "READY_FOR_CHARGING", "CHARGING", "DISCHARGING", "CONSERVATION",
     "ERROR", "UNSUPPORTED", "UNKNOWN", "str"}

ConnectionStates == {"None", "CONNECTED", "DISCONNECTED", "INVALID", "UNSUPPORTED",
                     "UNKNOWN", "str"}

HeatingStates == {"None", "OFF", "ON", "INVALID", "UNSUPPORTED", "UNKNOWN", "str"}

\* ClimatizationAccessory.__on_cc_climatization_state_change(element) with
\* element.value = state: the characteristics are written, then
\* element.value.value is evaluated for the log line that ends every arm.
Climatization_on_cc_climatization_state_change(a, state) ==
    LET current == CASE state = "HEATING" -> 1
                     [] state \in {"COOLING", "VENTILATION"} -> 2
                     [] OTHER -> 0
        target  == IF current = 0 THEN 0 ELSE 3
    IN  IF a.char_current_heating_cooling_state = NoCharacteristic
        THEN [accessory |-> a, raised |-> FALSE]
        ELSE [accessory |->
                 [a EXCEPT !.char_current_heating_cooling_state = current,
                           !.char_target_heating_cooling_state =
                               IF @ # NoCharacteristic THEN target ELSE @],
              raised |-> ~HasValueAttribute(state)]

\* ChargingAccessory.__on_cc_charging_state_change(element): the default arm
\* evaluates element.value.value.
Charging_on_cc_charging_state_change(a, state) ==
    LET on == IF state \in {"CHARGING", "DISCHARGING", "CONSERVATION"} THEN 1 ELSE 0
    IN  IF a.char_on = NoCharacteristic
        THEN [accessory |-> a, raised |-> FALSE]
        ELSE [accessory |-> [a EXCEPT !.char_on = on, !.reported_on = on],
              raised    |-> state = "str"]

\* ChargingAccessory.__on_cc_connector_state_change(element)
Charging_on_cc_connector_state_change(a, state) ==
    IF a.char_outlet_in_use = NoCharacteristic
    THEN [accessory |-> a, raised |-> FALSE]
    ELSE [accessory |-> [a EXCEPT !.char_outlet_in_use =
                                      IF state = "CONNECTED" THEN 1 ELSE 0],
          raised    |-> state = "str"]

\* ChargingPlugAccessory.__on_cc_connection_state_change(element): a value
\* that is neither None nor an enum member writes nothing.
ChargingPlug_on_cc_connection_state_change(a, state) ==
    IF a.char_contact_sensor_state = NoCharacteristic \/ state = "str"
    THEN [accessory |-> a, raised |-> FALSE]
    ELSE [accessory |->
             [a EXCEPT !.char_contact_sensor_state =
                           IF state \in {"None", "CONNECTED"} THEN 0 ELSE 1,
                       !.char_status_fault =
                           IF state \in {"None", "CONNECTED", "DISCONNECTED", "UNSUPPORTED"}
                           THEN 0 ELSE 1],
          raised |-> FALSE]

\* WindowHeatingAccessory.__on_cc_heating_state_change(element)
WindowHeating_on_cc_heating_state_change(a, state) ==
    LET on == IF state = "ON" THEN 1 ELSE 0
    IN  IF a.char_on = NoCharacteristic
        THEN [accessory |-> a, raised |-> FALSE]
        ELSE [accessory |-> [a EXCEPT !.char_on = on, !.reported_on = on],
              raised    |-> state = "str"]

\* ClimatizationAccessory.__on_hk_target_temperature_change(value); raises
\* says whether target_temperature_attribute.set_value raises SetterError,
\* which nothing in the handler catches.
Climatization_on_hk_target_temperature_change(a, value, raises) ==
    IF a.target_temperature_enabled
    THEN [accessory |-> [a EXCEPT !.current_target_temperature = value],
          result |-> IF raises THEN "SetterError" ELSE "set_value", raised |-> raises]
    ELSE [accessory |-> a, result |-> "not available", raised |-> FALSE]

\* ClimatizationAccessory.__on_hk_target_heating_cooling_state_changed(value)
Climatization_on_hk_target_heating_cooling_state_changed(a, T, t, value, raises) ==
    LET reverted ==
            IF a.char_target_heating_cooling_state = NoCharacteristic
            THEN a
            ELSE [a EXCEPT !.char_target_heating_cooling_state =
                               IF /\ a.char_current_heating_cooling_state # NoCharacteristic
                                  /\ a.char_current_heating_cooling_state \in {1, 2}
                               THEN 3 ELSE 0]
        f == set_status_fault(reverted, T, t, 1, FaultTimeout, NoTimeoutValue)
    IN  IF a.command_enabled
        THEN IF value \in {0, 1, 2, 3}
             THEN IF ~raises
                  THEN [accessory |-> a, timers |-> T,
                        result |-> IF value = 0 THEN "STOP" ELSE "START",
                        fault_call |-> NoFaultCall]
                  ELSE [accessory |-> f.accessory, timers |-> f.timers,
                        result |-> "SetterError",
                        fault_call |-> FaultCall(1, FaultTimeout, NoTimeoutValue, f.cancelled)]
             ELSE [accessory |-> a, timers |-> T, result |-> "not understood",
                   fault_call |-> NoFaultCall]
        ELSE [accessory |-> a, timers |-> T, result |-> "not enabled",
              fault_call |-> NoFaultCall]

\* The handler that takes every value other than 0 for a request to start.
StartStop_on_hk_on_change_nonzero_starts(a, T, t, value, raises) ==
    LET f == set_status_fault(a, T, t, 1, FaultTimeout, NoTimeoutValue)
    IN  IF a.command_enabled
        THEN IF ~raises
             THEN [accessory |-> a, timers |-> T,
                   result |-> IF value = 0 THEN "STOP" ELSE "START",
                   fault_call |-> NoFaultCall]
             ELSE [accessory |-> f.accessory, timers |-> f.timers,
                   result |-> "SetterError",
                   fault_call |-> FaultCall(1, FaultTimeout, NoTimeoutValue, f.cancelled)]
        ELSE [accessory |-> a, timers |-> T, result |-> "not enabled",
              fault_call |-> NoFaultCall]

\* ChargingAccessory.__on_hk_on_change(value) and
\* WindowHeatingAccessory.__on_hk_on_change(value), which differ in the
\* command object and the log lines only.
StartStop_on_hk_on_change(a, T, t, value, raises) ==
    LET f == set_status_fault(a, T, t, 1, FaultTimeout, NoTimeoutValue)
    IN  IF a.command_enabled
        THEN IF value \in {0, 1, 2, 3}
             THEN IF ~raises
                  THEN [accessory |-> a, timers |-> T,
                        result |-> IF value = 0 THEN "STOP" ELSE "START",
                        fault_call |-> NoFaultCall]
                  ELSE [accessory |-> f.accessory, timers |-> f.timers,
                        result |-> "SetterError",
                        fault_call |-> FaultCall(1, FaultTimeout, NoTimeoutValue, f.cancelled)]
             ELSE [accessory |-> a, timers |-> T, result |-> "not understood",
                   fault_call |-> NoFaultCall]
        ELSE [accessory |-> a, timers |-> T, result |-> "not enabled",
              fault_call |-> NoFaultCall]

\* The accessory objects after construction, every state attribute enabled
\* and reporting its off, disconnected or unlocked member.
ClimatizationAccessories ==
    { [NoAccessory EXCEPT !.class = "ClimatizationAccessory",
                          !.estimated_date_reached = NoDate,
                          !.command_enabled = en,
                          !.target_temperature_enabled = te,
                          !.current_target_temperature = 16] :
        en \in BOOLEAN, te \in BOOLEAN }

ChargingAccessories ==
    { [NoAccessory EXCEPT !.class = "ChargingAccessory",
                          !.estimated_date_reached = NoDate,
                          !.command_enabled = en] : en \in BOOLEAN }

ChargingPlugAccessories ==
    { [NoAccessory EXCEPT !.class = "ChargingPlugAccessory",
                          !.char_contact_sensor_state = 1] }

WindowHeatingAccessories ==
    { [NoAccessory EXCEPT !.class = "WindowHeatingAccessory",
                          !.command_enabled = en] : en \in BOOLEAN }

\* One accessory object of any class that has a state observer or a setter
\* callback.
AccessoryInit ==
    /\ BridgeInit
    /\ config_file = NoFile
    /\ ignore_vins = {}
    /\ vehicle = NoVehicle
    /\ accessory_obj \in ClimatizationAccessories \cup ChargingAccessories
                         \cup ChargingPlugAccessories \cup WindowHeatingAccessories
                         \cup FlashingLightAccessories \cup LockingAccessories
    /\ timers = <<>>
    /\ now = 0
    /\ stop_event = FALSE
    /\ threads = <<>>

\* The rest of the state, which a call on the accessory object leaves alone.
AccessoryCallFrame ==
    UNCHANGED <<accessory_config, next_aid, accessories, config_file, ignore_vins,
                ignore_accessory_types, constructed, vehicle, now, stop_event, threads>>

\* The Vehicle Model delivers a state of the climatization.
ClimatizationStateChange(state) ==
    /\ accessory_obj.class = "ClimatizationAccessory"
    /\ LET r == Climatization_on_cc_climatization_state_change(accessory_obj, state)
       IN  /\ accessory_obj' = r.accessory
           /\ last_op' = [NoOp EXCEPT !.op = "climatization_state_change",
                                      !.result = state, !.raised = r.raised]
    /\ UNCHANGED timers
    /\ AccessoryCallFrame

\* The Vehicle Model delivers a charging state.
ChargingStateChange(state) ==
    /\ accessory_obj.class = "ChargingAccessory"
    /\ LET r == Charging_on_cc_charging_state_change(accessory_obj, state)
       IN  /\ accessory_obj' = r.accessory
           /\ last_op' = [NoOp EXCEPT !.op = "charging_state_change",
                                      !.result = state, !.raised = r.raised]
    /\ UNCHANGED timers
    /\ AccessoryCallFrame

\* The Vehicle Model delivers a connection state of the connector to the
\* charging accessory.
ConnectorStateChange(state) ==
    /\ accessory_obj.class = "ChargingAccessory"
    /\ LET r == Charging_on_cc_connector_state_change(accessory_obj, state)
       IN  /\ accessory_obj' = r.accessory
           /\ last_op' = [NoOp EXCEPT !.op = "connector_state_change",
                                      !.result = state, !.raised = r.raised]
    /\ UNCHANGED timers
    /\ AccessoryCallFrame

\* The Vehicle Model delivers a connection state of the connector to the
\* charging plug accessory.
ConnectionStateChange(state) ==
    /\ accessory_obj.class = "ChargingPlugAccessory"
    /\ LET r == ChargingPlug_on_cc_connection_state_change(accessory_obj, state)
       IN  /\ accessory_obj' = r.accessory
           /\ last_op' = [NoOp EXCEPT !.op = "connection_state_change",
                                      !.result = state, !.raised = r.raised]
    /\ UNCHANGED timers
    /\ AccessoryCallFrame

\* The Vehicle Model delivers a state of the window heatings.
HeatingStateChange(state) ==
    /\ accessory_obj.class = "WindowHeatingAccessory"
    /\ LET r == WindowHeating_on_cc_heating_state_change(accessory_obj, state)
       IN  /\ accessory_obj' = r.accessory
           /\ last_op' = [NoOp EXCEPT !.op = "heating_state_change",
                                      !.result = state, !.raised = r.raised]
    /\ UNCHANGED timers
    /\ AccessoryCallFrame

\* Values the host writes to TargetTemperature.
TargetTemperatures == {16, 22}

\* The host writes value to TargetTemperature.
TargetTemperatureChange(value, raises) ==
    /\ accessory_obj.class = "ClimatizationAccessory"
    /\ LET r == Climatization_on_hk_target_temperature_change(accessory_obj, value, raises)
       IN  /\ accessory_obj' = r.accessory
           /\ last_op' = [NoOp EXCEPT !.op = "target_temperature_change", !.value = value,
                                      !.result = r.result, !.raised = r.raised]
    /\ UNCHANGED timers
    /\ AccessoryCallFrame

\* The values a write to TargetHeatingCoolingState or On carries: the four
\* the handlers name, and one they do not.
CommandValues == {0, 1, 2, 3, 5}

\* The host writes value to TargetHeatingCoolingState: the characteristic
\* takes the value and the setter callback runs.
TargetHeatingCoolingStateChange(value, raises) ==
    /\ accessory_obj.class = "ClimatizationAccessory"
    /\ LET r == Climatization_on_hk_target_heating_cooling_state_changed(
                    [accessory_obj EXCEPT !.char_target_heating_cooling_state = value],
                    timers, now, value, raises)
       IN  /\ accessory_obj' = r.accessory
           /\ timers' = r.timers
           /\ last_op' = [NoOp EXCEPT !.op = "target_heating_cooling_state_change",
                                      !.value = value,
                                      !.result = r.result, !.fault_call = r.fault_call]
    /\ AccessoryCallFrame

\* The host writes value to On of the charging or the window heating
\* accessory: the characteristic takes the value and the setter callback runs.
StartStopOnChange(value, raises) ==
    /\ accessory_obj.class \in {"ChargingAccessory", "WindowHeatingAccessory"}
    /\ LET r == StartStop_on_hk_on_change([accessory_obj EXCEPT !.char_on = value],
                                          timers, now, value, raises)
       IN  /\ accessory_obj' = r.accessory
           /\ timers' = r.timers
           /\ last_op' = [NoOp EXCEPT !.op = "on_change", !.value = value,
                                      !.result = r.result, !.fault_call = r.fault_call]
    /\ AccessoryCallFrame

AccessoryNext ==
    \/ \E state \in ClimatizationStates : ClimatizationStateChange(state)
    \/ \E state \in ChargingStates : ChargingStateChange(state)
    \/ \E state \in ConnectionStates : ConnectorStateChange(state)
    \/ \E state \in ConnectionStates : ConnectionStateChange(state)
    \/ \E state \in HeatingStates : HeatingStateChange(state)
    \/ \E state \in LockStates : LockStateChange(state)
    \/ \E value \in TargetTemperatures, raises \in BOOLEAN :
          TargetTemperatureChange(value, raises)
    \/ \E value \in CommandValues, raises \in BOOLEAN :
          TargetHeatingCoolingStateChange(value, raises)
    \/ \E value \in CommandValues, raises \in BOOLEAN : StartStopOnChange(value, raises)
    \/ \E value \in {0, 1, 2}, raises \in BOOLEAN : LockTargetStateChange(value, raises)
    \/ \E value \in BOOLEAN, raises \in BOOLEAN : FlashOnChange(value, raises)

AccessorySpec == AccessoryInit /\ [][AccessoryNext]_vars

-----------------------------------------------------------------------------
(* Identity store and reconciliation: claims C1 .. C10 *)

\* C1: once a key (vin, id_str) has an aid, no call changes it: after every
\* step of select_aid, set_config_item, get_config_item, get_existing_aid,
\* update and the inbound writes the key still has that aid, and select_aid
\* and get_existing_aid on the key return it without assigning a new one.
C1_AidStable ==
    [][\A vin \in VINs, id_str \in IdStrSet \cup StoreIdStrs :
         LET a == get_existing_aid(accessory_config, id_str, vin)
         IN  a # NoAid =>
               /\ get_existing_aid(accessory_config', id_str, vin) = a
               /\ ( /\ last_op'.op \in {"select_aid", "get_existing_aid"}
                    /\ last_op'.identifier = Identifier(vin, id_str) )
                  => (last_op'.aid = a /\ ~last_op'.assigned)]_vars

\* select_aid was called on a key that had an aid and returned it.
C1_Witness ==
    /\ last_op.op = "select_aid"
    /\ last_op.aid # NoAid
    /\ ~last_op.assigned
    /\ last_op.identifier \in AidKeys(accessory_config)
    /\ accessory_config[last_op.identifier]["aid"] = last_op.aid

\* C2: next_aid is greater than every aid in the store.
C2_NextAidAbove ==
    constructed =>
        \A identifier \in AidKeys(accessory_config) :
            accessory_config[identifier]["aid"] < next_aid

\* A store loaded from a file in which select_aid then assigned a further aid.
C2_Witness ==
    /\ constructed
    /\ config_file # NoFile
    /\ last_op.op = "select_aid"
    /\ last_op.assigned
    /\ Cardinality(AidKeys(accessory_config)) >= 2

\* C3: the aids of the store are pairwise distinct.
C3_AidsDistinct ==
    constructed =>
        \A k1, k2 \in AidKeys(accessory_config) :
            k1 # k2 => accessory_config[k1]["aid"] # accessory_config[k2]["aid"]

\* Loaded and newly assigned aids side by side: three keys with an aid after a
\* pass on a store that came from a file.
C3_Witness ==
    /\ constructed
    /\ config_file # NoFile
    /\ last_op.op = "update"
    /\ last_op.installed # {}
    /\ Cardinality(AidKeys(accessory_config)) >= 3

\* C4: next_aid advances only when select_aid assigns a new aid, and then by
\* exactly 1: every step advances it by the number of keys that gained an aid,
\* and a direct set_config_item call leaves it unchanged.
C4_NextAidOnlyOnAssign ==
    [][ /\ next_aid' - next_aid =
             Cardinality(AidKeys(accessory_config')) - Cardinality(AidKeys(accessory_config))
        /\ last_op'.op = "set_config_item" => next_aid' = next_aid ]_vars

\* A snapshot of an eligible vehicle whose only enabled capability is
\* climatization, with the climatization state attribute enabled.
ClimatizationOnly(v) ==
    /\ v.enabled /\ v.vin_enabled /\ v.vin # NoVin
    /\ v.climatization /\ v.climatization_state
    /\ ~v.charging /\ ~v.outside_temperature /\ ~v.honk_flash /\ ~v.lock_unlock

\* C5: on a fresh store (no file), the first pass for a vehicle with only
\* climatization enabled gives the key <vin>-Climatization aid 100, installs a
\* ClimatizationAccessory at registry[100] and leaves next_aid = 101.
C5_FreshStoreFirstPass ==
    [][ ( /\ last_op.op = "init"
          /\ config_file = NoFile
          /\ last_op'.op = "update"
          /\ ClimatizationOnly(last_op'.vehicle)
          /\ last_op'.vehicle.vin \notin ignore_vins )
        => /\ get_existing_aid(accessory_config', "Climatization", last_op'.vehicle.vin) = 100
           /\ 100 \in DOMAIN accessories'
           /\ accessories'[100].class = "ClimatizationAccessory"
           /\ next_aid' = 101 ]_vars

\* The aids of the loaded document.
LoadedAids == {accessory_config[identifier]["aid"] : identifier \in AidKeys(accessory_config)}

C7_PlaceholderReplaced ==
    [][ \A id_str \in IdStrSet :
          LET v == last_op'.vehicle
              a == get_existing_aid(accessory_config, id_str, v.vin)
          IN  ( /\ last_op'.op = "update"
                /\ PassesVehicleTest(v, ignore_vins)
                /\ id_str \notin ignore_accessory_types
                /\ CapabilityEnabled(v, id_str)
                /\ a \in DOMAIN accessories
                /\ accessories[a].class = "DummyAccessory" )
              => /\ a \in DOMAIN accessories'
                 /\ accessories'[a].class = AccessoryClass(id_str)
                 /\ accessories'[a].aid = a
                 /\ get_existing_aid(accessory_config', id_str, v.vin) = a ]_vars

\* C8: a pass that directly follows a pass on the same vehicle snapshot
\* installs nothing, leaves store, registry, next_aid and file unchanged and
\* does not notify the driver.
C8_Idempotent ==
    [][ (last_op'.op = "update" /\ last_op'.repeat)
        => /\ accessory_config' = accessory_config
           /\ accessories' = accessories
           /\ next_aid' = next_aid
           /\ config_file' = config_file
           /\ last_op'.installed = {}
           /\ ~last_op'.notified ]_vars

\* A repeated pass on a vehicle one of whose enabled capabilities has its live
\* accessory installed.
C8_Witness ==
    /\ last_op.op = "update"
    /\ last_op.repeat
    /\ ~last_op.raised
    /\ PassesVehicleTest(last_op.vehicle, ignore_vins)
    /\ \E id_str \in IdStrSet :
          LET a == get_existing_aid(accessory_config, id_str, last_op.vehicle.vin)
          IN  /\ CapabilityEnabled(last_op.vehicle, id_str)
              /\ a \in DOMAIN accessories
              /\ accessories[a].class = AccessoryClass(id_str)

\* C9: a pass that installed an accessory has notified the driver and has
\* persisted the store: the file holds the in-memory store.
C9_InstallPersists ==
    (last_op.op = "update" /\ last_op.installed # {}) =>
        /\ last_op.notified
        /\ config_file = File(accessory_config)

\* C10: after construction and at the end of every pass, every aid of the
\* store is a key of the registry.
C10_StoreAidsRegistered ==
    (constructed /\ last_op.op \in {"init", "update"}) =>
        \A identifier \in AidKeys(accessory_config) :
            accessory_config[identifier]["aid"] \in DOMAIN accessories

\* C11: the set of aids of the registry only grows: an aid that is a key of
\* the registry is a key of it after every step.
C11_RegistryGrows ==
    [][DOMAIN accessories \subseteq DOMAIN accessories']_vars

\* A pass for a vehicle on which a capability is disabled whose live accessory
\* is installed, with a second accessory in the registry.
C11_Witness ==
    /\ last_op.op = "update"
    /\ PassesVehicleTest(last_op.vehicle, ignore_vins)
    /\ Cardinality(DOMAIN accessories) >= 2
    /\ \E id_str \in IdStrSet :
          LET a == get_existing_aid(accessory_config, id_str, last_op.vehicle.vin)
          IN  /\ ~CapabilityEnabled(last_op.vehicle, id_str)
              /\ a \in DOMAIN accessories
              /\ accessories[a].class = AccessoryClass(id_str)

\* C13: a pass for a vehicle that is not enabled, whose VIN is disabled or
\* absent, or whose VIN is in ignore_vins leaves registry, store and next_aid
\* unchanged, installs nothing and does not notify the driver.
C13_SkippedPass ==
    [][ LET v == last_op'.vehicle
        IN  ( /\ last_op'.op = "update"
              /\ (~v.enabled \/ ~v.vin_enabled \/ v.vin = NoVin \/ v.vin \in ignore_vins) )
            => /\ accessories' = accessories
               /\ accessory_config' = accessory_config
               /\ next_aid' = next_aid
               /\ last_op'.installed = {}
               /\ ~last_op'.notified
               /\ ~last_op'.raised ]_vars

\* A pass for an enabled vehicle with an enabled capability whose VIN is in
\* ignore_vins.
C13_Witness ==
    /\ last_op.op = "update"
    /\ last_op.vehicle.enabled /\ last_op.vehicle.vin_enabled
    /\ last_op.vehicle.vin \in ignore_vins
    /\ \E id_str \in IdStrSet : CapabilityEnabled(last_op.vehicle, id_str)

\* C14: for every type T of ignore_accessory_types no accessory of type T is
\* in the registry, and no step creates a store entry or an aid for a key
\* <VIN>-T.
C14_IgnoredTypeNeverInstalled ==
    [][ \A id_str \in ignore_accessory_types :
          /\ \A a \in DOMAIN accessories' : accessories'[a].class # AccessoryClass(id_str)
          /\ \A vin \in VINs :
                /\ Identifier(vin, id_str) \notin DOMAIN accessory_config
                   => Identifier(vin, id_str) \notin DOMAIN accessory_config'
                /\ get_existing_aid(accessory_config, id_str, vin) = NoAid
                   => get_existing_aid(accessory_config', id_str, vin) = NoAid ]_vars

\* A pass on a fresh store for an eligible electric vehicle whose charging
\* capability is enabled, with "Charging" ignored: the pass installed the
\* charging plug sensor and nothing for Charging.
C14_Witness ==
    /\ last_op.op = "update"
    /\ "Charging" \in ignore_accessory_types
    /\ PassesVehicleTest(last_op.vehicle, ignore_vins)
    /\ CapabilityEnabled(last_op.vehicle, "Charging")
    /\ last_op.vehicle.charging_state /\ last_op.vehicle.connection_state
    /\ last_op.installed = {"ChargingPlug"}
    /\ Identifier(last_op.vehicle.vin, "Charging") \notin DOMAIN accessory_config

\* The live accessory of the key (vin, id_str) is installed at the key's aid.
LiveInstalled(id_str, vin) ==
    LET a == get_existing_aid(accessory_config, id_str, vin)
    IN  /\ a \in DOMAIN accessories
        /\ accessories[a].class = AccessoryClass(id_str)

\* Every capability enabled on the vehicle of the garage whose type is not
\* ignored has its live accessory installed.
EnabledCapabilitiesInstalled ==
    \A id_str \in IdStrSet :
        (CapabilityEnabled(vehicle, id_str) /\ id_str \notin ignore_accessory_types)
        => LiveInstalled(id_str, vehicle.vin)

\* C12: when a capability of an enabled, non-ignored vehicle has become
\* enabled after the vehicle's first pass, a further pass runs and the
\* capability accessories of the enabled capabilities are eventually installed.
C12_LateCapabilityInstalled ==
    (last_op.op = "capability_enabled" /\ PassesVehicleTest(vehicle, ignore_vins))
    ~> EnabledCapabilitiesInstalled

-----------------------------------------------------------------------------
(* Fault indicator, countdown and door lock: claims C15 .. C20 *)

\* The fault-revert timers that are scheduled.
FaultTimers == TimersOf(timers, "status_fault")

\* C15: at most one fault-revert timer is outstanding at any time, and a
\* set_status_fault call with a timeout made while a revert is pending leaves
\* exactly one scheduled revert, the one of this call: it is the accessory's
\* timer handle and is due timeout seconds after this call.
C15_OneFaultTimer ==
    [][ /\ Len(TimersOf(timers', "status_fault")) <= 1
        /\ (last_op'.fault_call.made /\ last_op'.fault_call.timeout > 0)
           => /\ Len(TimersOf(timers', "status_fault")) = 1
              /\ TimersOf(timers', "status_fault")[1] = accessory_obj'.char_status_fault_timer
              /\ accessory_obj'.char_status_fault_timer.deadline
                   = now + last_op'.fault_call.timeout ]_vars

\* set_status_fault(1, timeout=120) was called at 0 s and again at 60 s: the
\* second call cancelled the pending revert, and the one scheduled is due at
\* 180 s.
C15_Witness ==
    /\ now = 60
    /\ last_op.fault_call.made
    /\ last_op.fault_call.cancelled
    /\ last_op.fault_call.value = 1
    /\ last_op.fault_call.timeout = 120
    /\ Len(FaultTimers) = 1
    /\ FaultTimers[1].deadline = 180

\* C16: set_status_fault(value, timeout, timeout_value) sets the fault
\* characteristic to value; with timeout = 0 no revert is scheduled afterwards;
\* with timeout > 0 one revert is scheduled that writes timeout_value or, when
\* timeout_value is not given, the value the characteristic held before the
\* call; and a revert that fires writes the value it was scheduled with.
C16_SetStatusFault ==
    [][ /\ last_op'.op = "set_status_fault"
           => LET c == last_op'.fault_call
              IN  /\ accessory_obj'.char_status_fault = c.value
                  /\ c.timeout = 0 => TimersOf(timers', "status_fault") = <<>>
                  /\ c.timeout > 0 =>
                       TimersOf(timers', "status_fault") =
                         << Timer("status_fault", now + c.timeout,
                                  IF c.timeout_value = NoTimeoutValue
                                  THEN accessory_obj.char_status_fault
                                  ELSE c.timeout_value) >>
        /\ last_op'.op = "reset_status_fault"
           => /\ FaultTimers # <<>>
              /\ accessory_obj'.char_status_fault = FaultTimers[1].arg
              /\ TimersOf(timers', "status_fault") = <<>> ]_vars

\* A revert scheduled without timeout_value while the fault was 0 has fired
\* and has written 0 over the fault value 1.
C16_Witness ==
    /\ last_op.op = "reset_status_fault"
    /\ last_op.value = 0
    /\ accessory_obj.char_status_fault = 0
    /\ accessory_obj.char_status_fault_timer.arg = 0
    /\ accessory_obj.char_status_fault_timer.deadline = now
    /\ now > 0

\* C17: a timed fault is transient: with failed commands as the only source
\* of faults, whenever no revert timer is pending the fault characteristic is 0.
C17_FaultTransient ==
    FaultTimers = <<>> => accessory_obj.char_status_fault = 0

\* C20: when the lock or unlock command of a target-lock write raises a
\* setter error, the target lock characteristic is set to 1 if the current
\* lock state is 1 or 3 and to 0 otherwise, the fault characteristic is 1,
\* and one revert is scheduled, 120 s later, to the fault value held before.
C20_LockCommandFails ==
    [][ (last_op'.op = "lock_target_state_change" /\ last_op'.result = "SetterError")
        => /\ accessory_obj'.char_lock_target_state =
                IF accessory_obj.char_lock_current_state \in {1, 3} THEN 1 ELSE 0
           /\ accessory_obj'.char_lock_current_state = accessory_obj.char_lock_current_state
           /\ accessory_obj'.char_status_fault = 1
           /\ TimersOf(timers', "status_fault") =
                << Timer("status_fault", now + 120, accessory_obj.char_status_fault) >> ]_vars

\* An unlock write on a locked car raised a setter error: the target is back
\* at 1 and the fault is raised.
C20_Witness ==
    /\ last_op.op = "lock_target_state_change"
    /\ last_op.result = "SetterError"
    /\ last_op.value = 0
    /\ accessory_obj.char_lock_current_state = 1
    /\ accessory_obj.char_lock_target_state = 1
    /\ accessory_obj.char_status_fault = 1
    /\ Len(FaultTimers) = 1


\* C18: delivering an estimated-completion timestamp cancels the recompute
\* timer scheduled before: after every delivery at most one recompute timer is
\* started, and after the delivery of a timestamp in the future while the host
\* is not stopping exactly one is, the one the accessory holds, due one
\* interval later.
C18_OneCountdownTimer ==
    [][ (/\ last_op'.op = "estimated_date_reached_change"
         /\ last_op'.value # NoDate)
        => /\ Len(CountdownTimers(timers')) <= 1
           /\ (last_op'.value > now /\ ~stop_event)
              => /\ CountdownTimers(timers') =
                        << Timer("remaining_duration", now + 5, 0) >>
                 /\ accessory_obj'.update_remaining_duration_timer =
                        Timer("remaining_duration", now + 5, 0) ]_vars

\* The same future timestamp was delivered twice in a row and one recompute
\* timer is started.
C18_Witness ==
    /\ last_op.op = "estimated_date_reached_change"
    /\ last_op.repeat
    /\ last_op.value # NoDate
    /\ last_op.value > now
    /\ Len(CountdownTimers(timers)) = 1

\* C19: the chain of recompute timers ends: while the timestamp stays the same
\* and time advances, eventually no recompute timer is started and the
\* remaining duration is 0 (or the host is stopping); and a recompute made
\* once the stop event is set leaves no recompute timer started.
C19_CountdownTerminates ==
    /\ \A d \in Dates :
          (accessory_obj.estimated_date_reached = d)
          ~> \/ accessory_obj.estimated_date_reached # d
             \/ /\ CountdownTimers(timers) = <<>>
                /\ accessory_obj.char_remaining_duration = 0 \/ stop_event
    /\ [][ (/\ stop_event
            /\ \/ last_op'.op = "update_remaining_duration"
               \/ last_op'.op = "estimated_date_reached_change" /\ last_op'.value # NoDate)
           => CountdownTimers(timers') = <<>> ]_vars

\* A recompute timer ran after the timestamp had passed: the remaining
\* duration is 0 and nothing is scheduled.
C19_Witness ==
    /\ last_op.op = "update_remaining_duration"
    /\ accessory_obj.estimated_date_reached \in Dates
    /\ accessory_obj.estimated_date_reached <= now
    /\ accessory_obj.char_remaining_duration = 0
    /\ CountdownTimers(timers) = <<>>
    /\ ~stop_event


\* C21: an on = true write to the flashing light whose command is enabled and
\* accepted issues one FLASH command and starts a timer due 10 s later; the
\* timer runs when exactly 10 s have passed, and when it has run the on
\* characteristic is false, with no write by the host in between.
C21_FlashResets ==
    /\ [][ (/\ last_op'.op = "flash_on_change"
            /\ last_op'.value = 1
            /\ accessory_obj.command_enabled
            /\ last_op'.result # "SetterError")
           => /\ last_op'.result = "FLASH"
              /\ accessory_obj'.char_on = 1
              /\ FlashTimers(timers') =
                     Append(FlashTimers(timers), Timer("reset_state", now + 10, 0)) ]_vars
    /\ [][ last_op'.op = "reset_state"
           => /\ last_op'.value = now
              /\ accessory_obj'.char_on = 0 ]_vars
    /\ (FlashTimers(timers) # <<>>)
       ~> (last_op.op = "reset_state" /\ accessory_obj.char_on = 0)

\* The reset timer of an accepted flash ran 10 s after the write and set On to
\* false; no other write was made after the flash.
C21_Witness ==
    /\ last_op.op = "reset_state"
    /\ last_op.value = 10
    /\ now = 10
    /\ accessory_obj.char_on = 0
    /\ accessory_obj.char_status_fault = 0
    /\ timers = <<>>


\* C22: no setter callback of the climate mode, the climate target
\* temperature, charging on/off, the lock target, flash on or window-heating
\* on lets a setter error of the Vehicle Model reach the host.
C22_SetterErrorCaught ==
    last_op.op \in {"target_heating_cooling_state_change", "target_temperature_change",
                    "on_change", "lock_target_state_change", "flash_on_change"}
    => ~last_op.raised

\* C23: when the Vehicle Model rejects the command of an inbound write, the
\* written characteristic is set to the value the last reported state implies
\* and the fault indicator is raised to 1 with a revert due 120 s later.
C23_RejectedWriteReverts ==
    [][ (/\ last_op'.result = "SetterError"
         /\ last_op'.op \in {"target_heating_cooling_state_change", "on_change",
                             "lock_target_state_change", "flash_on_change"})
        => /\ CASE last_op'.op = "target_heating_cooling_state_change" ->
                     accessory_obj'.char_target_heating_cooling_state =
                        IF accessory_obj.char_current_heating_cooling_state \in {1, 2}
                        THEN 3 ELSE 0
                [] last_op'.op = "on_change" ->
                     accessory_obj'.char_on = accessory_obj.reported_on
                [] last_op'.op = "lock_target_state_change" ->
                     accessory_obj'.char_lock_target_state =
                        IF accessory_obj.char_lock_current_state \in {1, 3} THEN 1 ELSE 0
                [] last_op'.op = "flash_on_change" ->
                     accessory_obj'.char_on = 0
           /\ accessory_obj'.char_status_fault = 1
           /\ \E i \in 1..Len(timers') :
                 /\ timers'[i].kind = "status_fault"
                 /\ timers'[i].deadline = now + 120 ]_vars

\* C24: every observer callback of a state attribute returns without raising
\* for every delivered value, and leaves the characteristic it maps to at one
\* of its values.
C24_StateCallbackTotal ==
    last_op.op \in {"climatization_state_change", "charging_state_change",
                    "connector_state_change", "connection_state_change",
                    "heating_state_change", "lock_state_change"}
    => /\ ~last_op.raised
       /\ accessory_obj.char_current_heating_cooling_state \in {0, 1, 2}
       /\ accessory_obj.char_target_heating_cooling_state \in {0, 3}
       /\ accessory_obj.char_on \in {0, 1}
       /\ accessory_obj.char_outlet_in_use \in {0, 1}
       /\ accessory_obj.char_contact_sensor_state \in {0, 1}
       /\ accessory_obj.char_lock_current_state \in {0, 1, 3}


\* C25: a bridge constructed from the file persist_config has just written
\* holds every key of the persisted store with the aid it had, and its
\* next_aid is above every one of these aids.
C25_RoundTrip ==
    [][ (/\ last_op.op = "configured_name_changed"
         /\ last_op.result = "persisted"
         /\ last_op'.op = "restart")
        => /\ constructed'
           /\ DOMAIN accessory_config' = DOMAIN accessory_config
           /\ \A identifier \in AidKeys(accessory_config) :
                 /\ identifier \in AidKeys(accessory_config')
                 /\ accessory_config'[identifier]["aid"] = accessory_config[identifier]["aid"]
                 /\ next_aid' >= accessory_config[identifier]["aid"] + 1 ]_vars

\* A bridge was constructed from a file that holds a key with the aid 100
\* and the name written by the run before.
C25_Witness ==
    /\ last_op.op = "restart"
    /\ constructed
    /\ config_file = File(accessory_config)
    /\ {accessory_config[identifier]["aid"] : identifier \in AidKeys(accessory_config)}
          = {100}
    /\ \E identifier \in DOMAIN accessory_config :
          /\ "ConfiguredName" \in DOMAIN accessory_config[identifier]
          /\ accessory_config[identifier]["ConfiguredName"] = "Garage"
    /\ next_aid = 101


\* C26: persist_config never raises to its caller: an inbound rename runs to
\* completion whatever happens to the write, and a failed write leaves the
\* in-memory store as the rename made it.
C26_PersistNeverRaises ==
    [][ last_op'.op = "configured_name_changed"
        => /\ ~last_op'.raised
           /\ last_op'.result # "persisted"
              => /\ config_file' = config_file
                 /\ \A identifier \in DOMAIN accessory_config :
                       identifier \in DOMAIN accessory_config' ]_vars


\* C30: when the bridge has been constructed from a stored document and no
\* pass has run yet, the registry holds one accessory per store entry, at the
\* entry's aid; each is a placeholder that reports itself unavailable and has
\* the category the entry stores; no capability accessory is installed.
C30_PlaceholdersAfterConstruction ==
    (constructed /\ last_op.op \in {"init", "restart"})
    => /\ DOMAIN accessories =
             {accessory_config[identifier]["aid"] : identifier \in DOMAIN accessory_config}
       /\ Cardinality(DOMAIN accessories) = Cardinality(DOMAIN accessory_config)
       /\ \A identifier \in DOMAIN accessory_config :
             LET entry == accessory_config[identifier]
                 acc   == accessories[entry["aid"]]
             IN  /\ acc.class = "DummyAccessory"
                 /\ acc.aid = entry["aid"]
                 /\ ~acc.available
                 /\ "category" \in DOMAIN entry => acc.category = entry["category"]
       /\ \A aid \in DOMAIN accessories : accessories[aid].class = "DummyAccessory"

\* A bridge constructed from the document an earlier run persisted, holding
\* a placeholder with the stored category of the climatization accessory.
C30_Witness ==
    /\ constructed
    /\ last_op.op = "restart"
    /\ \E aid \in DOMAIN accessories :
          /\ accessories[aid].class = "DummyAccessory"
          /\ accessories[aid].category = "CATEGORY_AIR_CONDITIONER"
          /\ accessories[aid].display_name = "Garage"


\* C29: once the plugin has been shut down no countdown, fault-revert or
\* flash-reset timer is still started, and no function of such a timer runs.
C29_NoTimerAfterShutdown ==
    stop_event
    => /\ timers = <<>>
       /\ last_op.op \notin {"reset_state", "reset_status_fault",
                             "update_remaining_duration"}


\* C27: two deliveries of the change event of one attribute never run inside
\* the callback body at the same time, and once both have finished a battery
\* level is shown with the low-battery status that belongs to it.
C27_DeliveriesSerialized ==
    /\ \A i, j \in 1..Len(threads) :
          (i # j /\ threads[i].callback = threads[j].callback)
          => ~(Inside(threads[i]) /\ Inside(threads[j]))
    /\ (/\ Len(threads) = MaxDeliveries
        /\ \A i \in 1..Len(threads) :
              threads[i].callback = "level" /\ threads[i].pc = "done")
       => accessory_obj.char_status_low_battery
             = (IF accessory_obj.char_battery_level > 10 THEN 0 ELSE 1)


\* C28: while two passes run on two threads, as after any serial order of
\* them, no two keys of the store hold the same aid and no key has an
\* accessory constructed for it by both passes.
C28_PassesSerialized ==
    /\ \A k1, k2 \in AidKeys(accessory_config) :
          k1 # k2 => accessory_config[k1]["aid"] # accessory_config[k2]["aid"]
    /\ \A i, j \in 1..Len(threads) :
          i # j => threads[i].constructed_keys \cap threads[j].constructed_keys = {}


\* C31: a rename with a non-empty name leaves ConfiguredName in the store
\* entry of the accessory's key, the store in the file, and the name in both
\* name characteristics; an empty or absent name changes none of the three.
C31_RenamePersisted ==
    [][ last_op'.op = "configured_name_changed"
        => IF last_op'.result = "empty"
           THEN UNCHANGED <<accessory_config, config_file, accessories>>
           ELSE \E value \in NameValues \ {""} :
                  /\ last_op'.identifier \in DOMAIN accessory_config'
                  /\ "ConfiguredName" \in DOMAIN accessory_config'[last_op'.identifier]
                  /\ accessory_config'[last_op'.identifier]["ConfiguredName"] = value
                  /\ config_file' = File(accessory_config')
                  /\ accessories'[last_op'.aid].char_configured_name = value
                  /\ accessories'[last_op'.aid].char_name = value ]_vars


\* C32: when a delivery of estimated_date_reached without a timestamp has
\* returned, RemainingDuration is 0, no recompute timer is started and the
\* accessory holds no timer handle.
C32_AbsentDateCancels ==
    (last_op.op = "estimated_date_reached_change" /\ last_op.value = NoDate)
    => /\ accessory_obj.char_remaining_duration = 0
       /\ CountdownTimers(timers) = <<>>
       /\ accessory_obj.update_remaining_duration_timer = NoTimer


\* C33: while a timer's recompute and an observer delivery run on two
\* threads, at most one recompute timer is started and the handle the
\* accessory stores is that timer.
C33_OneCountdownTimerRace ==
    /\ Len(CountdownTimers(timers)) <= 1
    /\ \A k \in 1..Len(timers) :
          timers[k].kind = "remaining_duration"
          => accessory_obj.update_remaining_duration_timer = timers[k]


\* C34: right after a delivered lock state, LockCurrentState and, where it
\* is configured, LockTargetState are (1, 1) for locked, (0, 0) for unlocked
\* and (3, 1) for every other value; so a current state of 1 comes with a
\* target of 1 and a current state of 0 with a target of 0.
C34_LockStateMapping ==
    last_op.op = "lock_state_change"
    => LET current == accessory_obj.char_lock_current_state
           target  == accessory_obj.char_lock_target_state
           ct      == CASE last_op.result = "LOCKED"   -> <<1, 1>>
                        [] last_op.result = "UNLOCKED" -> <<0, 0>>
                        [] OTHER                       -> <<3, 1>>
       IN  /\ current = ct[1]
           /\ target # NoCharacteristic => target = ct[2]
           /\ (target # NoCharacteristic /\ current \in {0, 1}) => target = current

\* An unrecognised lock state has been delivered to a lock that was
\* unlocked: it reads jammed with a secured target.
C34_Witness ==
    /\ last_op.op = "lock_state_change"
    /\ last_op.result = "other"
    /\ accessory_obj.char_lock_current_state = 3
    /\ accessory_obj.char_lock_target_state = 1


\* C35: with the lock-unlock command enabled, a write of 1 to LockTargetState
\* issues the one command LOCK and a write of 0 the one command UNLOCK (which
\* the vehicle accepts or rejects with a setter error); a write of any other
\* value issues no command and sets the fault to 1 with one revert timer due
\* 120 s later.
C35_LockTargetCommands ==
    (last_op.op = "lock_target_state_change" /\ accessory_obj.lock_unlock_command_enabled)
    => /\ last_op.value = 1 => last_op.result \in {"LOCK", "SetterError"}
       /\ last_op.value = 0 => last_op.result \in {"UNLOCK", "SetterError"}
       /\ last_op.result \in {"LOCK", "UNLOCK"} => ~last_op.fault_call.made
       /\ last_op.value \notin {0, 1}
          => /\ last_op.result = "not understood"
             /\ last_op.fault_call.made
             /\ last_op.fault_call.value = 1
             /\ last_op.fault_call.timeout = FaultTimeout
             /\ accessory_obj.char_status_fault = 1
             /\ Len(FaultTimers) = 1
             /\ FaultTimers[1].deadline = now + FaultTimeout

\* A write of 2 has issued no command and raised the fault.
C35_Witness ==
    /\ last_op.op = "lock_target_state_change"
    /\ accessory_obj.lock_unlock_command_enabled
    /\ last_op.value = 2
    /\ last_op.result = "not understood"
    /\ accessory_obj.char_status_fault = 1


\* C36: on a climate, charging or window heating accessory whose start-stop
\* command is enabled, a write of 1, 2 or 3 to the mode or On characteristic
\* issues the one command START and a write of 0 the one command STOP (which
\* the vehicle accepts or rejects with a setter error); a write of any other
\* value issues no command, raises no fault and leaves every characteristic
\* as the write left it.
C36_StartStopCommands ==
    [][ (/\ last_op'.op \in {"target_heating_cooling_state_change", "on_change"}
         /\ accessory_obj.command_enabled)
        => /\ last_op'.value \in {1, 2, 3} => last_op'.result \in {"START", "SetterError"}
           /\ last_op'.value = 0 => last_op'.result \in {"STOP", "SetterError"}
           /\ last_op'.result \in {"START", "STOP"} => ~last_op'.fault_call.made
           /\ last_op'.value \notin {0, 1, 2, 3}
              => /\ last_op'.result = "not understood"
                 /\ ~last_op'.fault_call.made
                 /\ timers' = timers
                 /\ accessory_obj' =
                      IF last_op'.op = "on_change"
                      THEN [accessory_obj EXCEPT !.char_on = last_op'.value]
                      ELSE [accessory_obj EXCEPT
                              !.char_target_heating_cooling_state = last_op'.value] ]_vars

\* A write of 5 to On of a window heating accessory with its command enabled
\* has issued no command.
C36_Witness ==
    /\ last_op.op = "on_change"
    /\ accessory_obj.class = "WindowHeatingAccessory"
    /\ accessory_obj.command_enabled
    /\ last_op.value = 5
    /\ last_op.result = "not understood"
    /\ accessory_obj.char_status_fault = 0


\* C37: right after a connection state was delivered to the charging plug,
\* ContactSensorState and StatusFault are (0, 0), contact closed without
\* fault, for connected, (1, 0), contact open without fault, for disconnected
\* and unsupported, and (1, 1), contact open with fault, for every other
\* value, an absent one included.
C37_ConnectionStateMapping ==
    (/\ last_op.op = "connection_state_change"
     /\ accessory_obj.char_contact_sensor_state # NoCharacteristic)
    => <<accessory_obj.char_contact_sensor_state, accessory_obj.char_status_fault>>
          = CASE last_op.result = "CONNECTED"                     -> <<0, 0>>
              [] last_op.result \in {"DISCONNECTED", "UNSUPPORTED"} -> <<1, 0>>
              [] OTHER                                            -> <<1, 1>>


\* C38: a write of 0 or 1 to TemperatureDisplayUnits of a climate or outside
\* temperature accessory leaves the unit in the characteristic, in the store
\* entry of the accessory's key and in the file, from which a restart would
\* read it; a write of any other value changes neither the store nor the
\* characteristic.
C38_DisplayUnitPersisted ==
    [][ last_op'.op = "temperature_display_units_change"
        => IF last_op'.value \in TemperatureUnitValues
           THEN /\ accessories'[last_op'.aid].char_temperature_display_units = last_op'.value
                /\ has_config_item(accessory_config', accessories[last_op'.aid].id_str,
                                   accessories[last_op'.aid].vin, "TemperatureDisplayUnits")
                /\ accessory_config'[last_op'.identifier]["TemperatureDisplayUnits"]
                      = last_op'.value
                /\ config_file' = File(accessory_config')
           ELSE UNCHANGED <<accessory_config, accessories, config_file>> ]_vars


\* C39: in a bridge constructed from no file or from a document whose
\* entries all have an aid, every store entry has an aid in every reachable
\* state, and so has every entry of the document in the file: a restart finds
\* an aid for every placeholder it creates.
C39_EveryEntryHasAid ==
    constructed =>
        /\ \A identifier \in DOMAIN accessory_config :
              /\ "aid" \in DOMAIN accessory_config[identifier]
              /\ accessory_config[identifier]["aid"] # NoAid
        /\ config_file.exists =>
              LET doc == json_load(config_file.content)
              IN  \A identifier \in DOMAIN doc :
                     /\ "aid" \in DOMAIN doc[identifier]
                     /\ doc[identifier]["aid"] # NoAid

\* A bridge restarted from a document the program persisted after a rename:
\* the renamed key has its placeholder.
C39_Witness ==
    /\ constructed
    /\ last_op.op = "restart"
    /\ \E identifier \in DOMAIN accessory_config :
          /\ "ConfiguredName" \in DOMAIN accessory_config[identifier]
          /\ accessory_config[identifier]["ConfiguredName"] = "Garage"
          /\ accessory_config[identifier]["aid"] \in DOMAIN accessories
          /\ accessories[accessory_config[identifier]["aid"]].class = "DummyAccessory"


\* The live accessories of the registry accs agree with the store cfg: each
\* sits at its own aid, the store records that aid for its key, and its class
\* is the one update() constructs for the capability id of the key.
LiveAgreeWithStore(cfg, accs) ==
    \A aid \in {i \in DOMAIN accs : accs[i].class # "DummyAccessory"} :
        /\ accs[aid].aid = aid
        /\ accs[aid].id_str \in IdStrSet
        /\ get_existing_aid(cfg, accs[aid].id_str, accs[aid].vin) = aid
        /\ accs[aid].class = AccessoryClass(accs[aid].id_str)

\* C40: after every step of a run of sequential passes (and inbound writes)
\* each live accessory sits at the key equal to its aid, the store records
\* that aid for "<VIN>-<CapabilityId>", and its class is the one of that
\* capability id; an aid that held a live accessory before the step still
\* holds the same instance: same key, and no pass constructed a new accessory
\* for that key.
C40_LiveAccessoriesStable ==
    [][ /\ LiveAgreeWithStore(accessory_config', accessories')
        /\ \A aid \in LiveAids :
              /\ aid \in DOMAIN accessories'
              /\ accessories'[aid].class = accessories[aid].class
              /\ accessories'[aid].vin = accessories[aid].vin
              /\ accessories'[aid].id_str = accessories[aid].id_str
              /\ ~ /\ last_op'.op = "update"
                   /\ last_op'.vehicle.vin = accessories[aid].vin
                   /\ accessories[aid].id_str \in last_op'.installed ]_vars

\* A pass for a vehicle whose capability is enabled found the live accessory
\* that replaced the placeholder of an aid loaded from the startup document
\* (the file has the key's aid and not yet its category), and installed
\* nothing.
C40_Witness ==
    /\ last_op.op = "update"
    /\ last_op.installed = {}
    /\ config_file.exists
    /\ \E aid \in LiveAids :
          /\ LET doc == json_load(config_file.content)
                 identifier == Identifier(accessories[aid].vin, accessories[aid].id_str)
             IN  /\ identifier \in DOMAIN doc
                 /\ doc[identifier]["aid"] = aid
                 /\ "category" \notin DOMAIN doc[identifier]
          /\ accessories[aid].vin = last_op.vehicle.vin
          /\ CapabilityEnabled(last_op.vehicle, accessories[aid].id_str)
          /\ PassesVehicleTest(last_op.vehicle, ignore_vins)
          /\ accessories[aid].id_str \notin ignore_accessory_types

====
